---- MODULE Spec2Model ----
(***************************************************************************)
(* JISP: a stack machine whose program, operand stack, heap and            *)
(* bookkeeping live in one mutable JSON document (src/jisp.c).             *)
(*                                                                         *)
(* The model is a small-step machine.  The host (C) call stack of the      *)
(* recursive walker is the sequence `cstack`; every document ever created  *)
(* (the top-level one and the sandboxes of test/step/undo) is an entry of  *)
(* `docs`; the process-wide pointer stack g_ptr_stack is `ptrs`.           *)
(***************************************************************************)
EXTENDS Integers, Sequences, FiniteSets, TLC

(***************************************************************************)
(* Bounds of the model.                                                    *)
(***************************************************************************)
\* longest generated entrypoint (scenario programs are listed separately)
MaxProgLen == 2
\* deepest host call stack explored
MaxDepth == 6

(***************************************************************************)
(* JSON values (yyjson_mut_val).  A value is a record [t, v]: t is the     *)
(* type tag, v the payload.  Objects are SEQUENCES of key/value entries:   *)
(* yyjson objects keep insertion order and may hold duplicate keys.        *)
(***************************************************************************)
JNull == [t |-> "null", v |-> 0]
JBool(b) == [t |-> "bool", v |-> b]
JInt(n) == [t |-> "int", v |-> n]
JReal(n) == [t |-> "real", v |-> n]
JStr(s) == [t |-> "str", v |-> s]
JArr(s) == [t |-> "arr", v |-> s]
JObj(s) == [t |-> "obj", v |-> s]
KV(key, x) == [k |-> key, v |-> x]
\* the C NULL pointer where a yyjson_mut_val* is expected
None == [t |-> "none", v |-> 0]

IsNone(x) == x.t = "none"
IsObj(x) == x.t = "obj"
IsArr(x) == x.t = "arr"
IsStr(x) == x.t = "str"
IsInt(x) == x.t = "int"
IsNum(x) == x.t \in {"int", "real"}
IsScalar(x) == x.t \in {"null", "bool", "int", "real", "str"}
\* yyjson_get_bool: true only for the boolean true
GetBool(x) == x.t = "bool" /\ x.v
\* yyjson_mut_get_sint: the integer payload, 0 for anything that is not an integer
GetSint(x) == IF x.t = "int" THEN x.v ELSE 0
\* yyjson_mut_arr_size / yyjson_mut_obj_size: 0 for a non-container
ArrSize(x) == IF IsArr(x) THEN Len(x.v) ELSE 0

MinOf(S) == CHOOSE i \in S : \A j \in S : i <= j
Front(s) == SubSeq(s, 1, Len(s) - 1)
Last(s) == s[Len(s)]

\* position of the first entry named key, 0 when absent or o is no object
ObjIdx(o, key) ==
  IF ~IsObj(o) THEN 0
  ELSE LET I == {i \in 1..Len(o.v) : o.v[i].k = key}
       IN IF I = {} THEN 0 ELSE MinOf(I)
\* yyjson_mut_obj_get: the value of the FIRST entry named key, NULL otherwise
ObjGet(o, key) == IF ObjIdx(o, key) = 0 THEN None ELSE o.v[ObjIdx(o, key)].v
\* yyjson_mut_obj_add_val: appends an entry, an existing key is kept (duplicate)
ObjAdd(o, key, x) == IF IsObj(o) THEN JObj(Append(o.v, KV(key, x))) ELSE o
\* yyjson_mut_obj_remove_key: removes every entry named key
ObjRemoveKey(o, key) ==
  IF IsObj(o) THEN JObj(SelectSeq(o.v, LAMBDA e : e.k # key)) ELSE o
\* yyjson_mut_arr_append / yyjson_mut_arr_remove_last
ArrAppend(a, x) == IF IsArr(a) THEN JArr(Append(a.v, x)) ELSE a
ArrRemoveLast(a) == IF IsArr(a) /\ Len(a.v) > 0 THEN JArr(Front(a.v)) ELSE a

(***************************************************************************)
(* Nodes are addressed by position paths: a sequence of 1-based child      *)
(* positions (entry position in an object, element position in an array).  *)
(* A position path names one node, also an entry shadowed by a duplicate.  *)
(***************************************************************************)
RECURSIVE AtPos(_, _)
AtPos(x, pos) ==
  IF pos = <<>> THEN x
  ELSE IF ~(x.t \in {"arr", "obj"}) \/ Head(pos) > Len(x.v) \/ Head(pos) < 1 THEN None
  ELSE IF IsArr(x) THEN AtPos(x.v[Head(pos)], Tail(pos))
  ELSE AtPos(x.v[Head(pos)].v, Tail(pos))

RECURSIVE SetPos(_, _, _)
SetPos(x, pos, new) ==
  IF pos = <<>> THEN new
  ELSE IF ~(x.t \in {"arr", "obj"}) \/ Head(pos) > Len(x.v) \/ Head(pos) < 1 THEN x
  ELSE IF IsArr(x)
       THEN JArr([x.v EXCEPT ![Head(pos)] = SetPos(@, Tail(pos), new)])
       ELSE JObj([x.v EXCEPT ![Head(pos)] = KV(@.k, SetPos(@.v, Tail(pos), new))])

IsPrefix(p, q) == Len(p) <= Len(q) /\ SubSeq(q, 1, Len(p)) = p

(***************************************************************************)
(* RFC 6901 resolution as yyjson_mut_ptr_get does it.                      *)
(***************************************************************************)
DigitChars == <<"0", "1", "2", "3", "4", "5", "6", "7", "8", "9">>
IsDigit(c) == \E d \in 1..10 : DigitChars[d] = c
DigitVal(c) == (CHOOSE d \in 1..10 : DigitChars[d] = c) - 1

\* snprintf("%zu")
RECURSIVE DecStr(_)
DecStr(n) == IF n < 10 THEN DigitChars[n + 1] ELSE DecStr(n \div 10) \o DigitChars[(n % 10) + 1]

RECURSIVE DecVal(_, _)
DecVal(s, acc) == IF s = "" THEN acc ELSE DecVal(Tail(s), acc * 10 + DigitVal(Head(s)))

AllDigits(s) == \A i \in 1..Len(s) : IsDigit(SubSeq(s, i, i))

\* ptr_token_to_idx: -1 when the token is no usable index ("-" is past the end)
TokenToIdx(tok) ==
  IF tok = "" THEN -1
  ELSE IF Head(tok) = "0" THEN (IF Len(tok) > 1 THEN -1 ELSE 0)
  ELSE IF ~AllDigits(tok) THEN -1
  ELSE DecVal(tok, 0)

\* the raw tokens of a pointer that starts with '/'
RECURSIVE SplitTokens(_, _, _)
SplitTokens(s, cur, acc) ==
  IF s = "" THEN Append(acc, cur)
  ELSE IF Head(s) = "/" THEN SplitTokens(Tail(s), "", Append(acc, cur))
  ELSE SplitTokens(Tail(s), cur \o Head(s), acc)

\* ptr_next_token: a '~' must be followed by '0' or '1'
RECURSIVE EscapesOk(_)
EscapesOk(s) ==
  IF s = "" THEN TRUE
  ELSE IF Head(s) = "~"
       THEN Len(s) >= 2 /\ SubSeq(s, 2, 2) \in {"0", "1"} /\ EscapesOk(SubSeq(s, 3, Len(s)))
       ELSE EscapesOk(Tail(s))

RECURSIVE Unescape(_)
Unescape(s) ==
  IF s = "" THEN ""
  ELSE IF Head(s) = "~" /\ Len(s) >= 2
       THEN (IF SubSeq(s, 2, 2) = "0" THEN "~" ELSE "/") \o Unescape(SubSeq(s, 3, Len(s)))
       ELSE Head(s) \o Unescape(Tail(s))

\* one step of the resolver: the child position selected by a raw token, 0 if none
ChildPos(x, tok) ==
  IF ~EscapesOk(tok) THEN 0
  ELSE IF IsObj(x) THEN ObjIdx(x, Unescape(tok))
  ELSE IF IsArr(x)
       THEN (IF TokenToIdx(tok) >= 0 /\ TokenToIdx(tok) < Len(x.v) THEN TokenToIdx(tok) + 1 ELSE 0)
  ELSE 0

RECURSIVE WalkTokens(_, _, _)
WalkTokens(x, toks, pos) ==
  IF toks = <<>> THEN [ok |-> TRUE, pos |-> pos]
  ELSE LET c == ChildPos(x, Head(toks))
       IN IF c = 0 THEN [ok |-> FALSE, pos |-> <<>>]
          ELSE WalkTokens(AtPos(x, <<c>>), Tail(toks), Append(pos, c))

\* yyjson_mut_ptr_get: the position of the node a pointer selects below root
PtrGet(root, path) ==
  IF path = "" THEN [ok |-> TRUE, pos |-> <<>>]
  ELSE IF Head(path) # "/" THEN [ok |-> FALSE, pos |-> <<>>]
  ELSE WalkTokens(root, SplitTokens(Tail(path), "", <<>>), <<>>)

\* the resolution every path opcode performs: "/" is the root itself
ResolvePath(root, path) ==
  IF path = "/" THEN [ok |-> TRUE, pos |-> <<>>] ELSE PtrGet(root, path)

(***************************************************************************)
(* State.                                                                  *)
(*   docs    every yyjson_mut_doc created so far: [root, freed, ostack];   *)
(*           docs[1] is the input document, the others are sandboxes;      *)
(*           ostack is the stack array the running activations still hold  *)
(*           a pointer to after the root was overwritten (None before)     *)
(*   ptrs    g_ptr_stack[0 .. g_ptr_sp-1]                                  *)
(*   cstack  the host call stack: the activations of process_ep_array,     *)
(*           map_over, op_test and step_jisp_op that have not returned     *)
(*   status  "loaded" (input parsed), "running", "done" (main returned),   *)
(*           "fatal" (jisp_fatal called exit(1)) or "crash" (a freed       *)
(*           document was used)                                            *)
(*   hist    history: the step the run took last.  op names the branch of  *)
(*           the walker or the opcode, elem is the instruction, d the      *)
(*           document it ran on, root and ptrs are that document's root    *)
(*           and the pointer stack when it was invoked, res is "done",     *)
(*           "entered" (frames were started, the handler has not returned) *)
(*           or "fatal", out the verdict of a finished test and actual the *)
(*           root of its sandbox when it was compared                      *)
(***************************************************************************)
VARIABLES docs, ptrs, cstack, status, hist
vars == <<docs, ptrs, cstack, status, hist>>

\* the three mutable components, threaded through the operators below
Machine == [docs |-> docs, ptrs |-> ptrs, cs |-> cstack]
RootOf(m, d) == m.docs[d].root
PutRoot(m, d, r) == [m EXCEPT !.docs[d].root = r]

(***************************************************************************)
(* Raw pointers.  A jpm_ptr and the array a walker frame iterates are raw  *)
(* yyjson_mut_val pointers.  While the node is part of its document the    *)
(* reference is `att` and names it by position; once the node is unlinked  *)
(* (popped, removed, or its parent overwritten) the reference keeps the    *)
(* node's content in `val`: the arena never frees a node before the doc.   *)
(***************************************************************************)
DetachRef(r, d, root, prefix) ==
  IF r.doc = d /\ r.att /\ IsPrefix(prefix, r.pos)
  THEN [r EXCEPT !.att = FALSE, !.val = AtPos(root, r.pos)]
  ELSE r

\* the sequence of the F(s[i])
MapSeq(s, F(_)) == LET r == [i \in DOMAIN s |-> F(s[i])] IN SubSeq(r, 1, Len(r))

MapRefs(m, F(_)) ==
  [m EXCEPT !.ptrs = MapSeq(m.ptrs, F),
            !.cs = MapSeq(m.cs, LAMBDA r : IF r.kind = "walk" THEN F(r) ELSE r)]

\* the node at prefix of document d is about to be unlinked
DetachUnder(m, d, prefix) ==
  MapRefs(m, LAMBDA r : DetachRef(r, d, RootOf(m, d), prefix))

\* the children of the node at prefix are about to be unlinked, the node stays
\* (a walker iterating the node itself goes on over the elements it had)
DetachBelow(m, d, prefix) ==
  MapRefs(m, LAMBDA r : IF r.doc = d /\ r.att /\ r.pos = prefix
                        THEN (IF IsScalar(AtPos(RootOf(m, d), prefix)) THEN r
                              ELSE [r EXCEPT !.val = AtPos(RootOf(m, d), prefix)])
                        ELSE DetachRef(r, d, RootOf(m, d), prefix))

\* the node at position from moves to position to (same node, new parent)
MoveRef(r, d, from, to) ==
  IF r.doc = d /\ r.att /\ IsPrefix(from, r.pos)
  THEN [r EXCEPT !.pos = to \o SubSeq(r.pos, Len(from) + 1, Len(r.pos))]
  ELSE r
MoveUnder(m, d, from, to) == MapRefs(m, LAMBDA r : MoveRef(r, d, from, to))

\* what a reference points at now
RefValue(m, r) == IF r.att THEN AtPos(RootOf(m, r.doc), r.pos) ELSE r.val

(***************************************************************************)
(* Root accessors.                                                         *)
(***************************************************************************)
\* ensure_root_object: a root that is no object is replaced by a fresh {}
EnsureRootObject(m, d) ==
  IF IsObj(RootOf(m, d)) THEN m
  ELSE PutRoot(DetachUnder(m, d, <<>>), d, JObj(<<>>))

StackPos(root) == ObjIdx(root, "stack")
Stack(root) == ObjGet(root, "stack")
\* get_stack_fallible succeeds
HasStack(root) == IsArr(Stack(root))
\* REQUIRE_STACK(doc, k) succeeds
RequireStack(root, k) == HasStack(root) /\ Len(Stack(root).v) >= k
StackLen(root) == ArrSize(Stack(root))
StackTop(root) == Last(Stack(root).v)

\* yyjson_mut_arr_append(stack, x) on the node root["stack"]
PushRaw(root, x) ==
  IF StackPos(root) = 0 THEN root
  ELSE SetPos(root, <<StackPos(root)>>, ArrAppend(Stack(root), x))

\* yyjson_mut_arr_remove_last(stack): the popped node leaves the document
PopRaw(m, d) ==
  LET root == RootOf(m, d)
      sp == StackPos(root)
      n == StackLen(root)
  IN IF n = 0 THEN m
     ELSE PutRoot(DetachUnder(m, d, <<sp, n>>), d,
                  SetPos(root, <<sp>>, ArrRemoveLast(Stack(root))))

(***************************************************************************)
(* Residual log.                                                           *)
(***************************************************************************)
\* is_reversible_enabled
IsReversible(root) == GetBool(ObjGet(root, "is_reversible"))
Residual(root) == ObjGet(root, "residual")

\* ensure_residual_array: NULL when residual exists and is no array
ResidualUsable(root) == IsObj(root) /\ (IsNone(Residual(root)) \/ IsArr(Residual(root)))
EnsureResidual(root) ==
  IF IsNone(Residual(root)) THEN ObjAdd(root, "residual", JArr(<<>>)) ELSE root

\* an append that drops the entries already logged
AppendResidualOnly(root, entry) ==
  SetPos(EnsureResidual(root), <<ObjIdx(EnsureResidual(root), "residual")>>, JArr(<<entry>>))

AppendResidual(root, entry) ==
  LET r == EnsureResidual(root)
  IN SetPos(r, <<ObjIdx(r, "residual")>>, ArrAppend(Residual(r), entry))

\* the patch object built by record_patch_with_val / record_patch_with_real
Patch(op, path, val) ==
  IF IsNone(val) THEN JObj(<<KV("op", JStr(op)), KV("path", JStr(path))>>)
  ELSE JObj(<<KV("op", JStr(op)), KV("path", JStr(path)), KV("value", val)>>)

\* record_patch_with_val without its test of is_reversible
RecordPatchAlways(root, op, path, val) ==
  IF ~ResidualUsable(root) THEN root ELSE AppendResidual(root, Patch(op, path, val))

\* record_patch_with_val (val = None: no value member), record_patch_with_real
RecordPatch(root, op, path, val) ==
  IF ~IsReversible(root) \/ ~ResidualUsable(root) THEN root
  ELSE AppendResidual(root, Patch(op, path, val))

\* jisp_stack_log_remove_last
LogRemoveLast(root) ==
  IF StackLen(root) = 0 THEN root
  ELSE RecordPatch(root, "remove", "/stack/" \o DecStr(StackLen(root) - 1), StackTop(root))

\* residual_group_begin: NULL unless reversible
GroupBegin(root) == IF IsReversible(root) THEN JArr(<<>>) ELSE None

\* residual_group_add_patch_with_val/_real: [root, group] after the call
GroupAdd(rg, op, path, val) ==
  IF ~IsArr(rg.group)
  THEN [root |-> RecordPatch(rg.root, op, path, val), group |-> rg.group]
  ELSE [root |-> rg.root, group |-> ArrAppend(rg.group, Patch(op, path, val))]

\* residual_group_commit that wraps the group in one more array
GroupCommitNested(rg) ==
  IF IsNone(rg.group) \/ ~IsReversible(rg.root) \/ ~ResidualUsable(rg.root) THEN rg.root
  ELSE AppendResidual(rg.root, JArr(<<rg.group>>))

\* if (group) residual_group_commit(doc, group)
GroupCommit(rg) ==
  IF IsNone(rg.group) \/ ~IsReversible(rg.root) \/ ~ResidualUsable(rg.root) THEN rg.root
  ELSE AppendResidual(rg.root, rg.group)

\* jisp_stack_log_remove_last followed by yyjson_mut_arr_remove_last
PopLogged(m, d) == PopRaw(PutRoot(m, d, LogRemoveLast(RootOf(m, d))), d)

\* "/stack/<n-1>" for the current top
TopPath(root) == "/stack/" \o DecStr(StackLen(root) - 1)

(***************************************************************************)
(* Opcodes that run to completion without entering a frame.  Each takes    *)
(* the machine and the document it is invoked on and returns the outcome   *)
(* [st, m]: st = "fatal" is a call of jisp_fatal, m the state at that      *)
(* moment (what the fatal snapshot dumps).                                 *)
(***************************************************************************)
Ok(m) == [st |-> "ok", m |-> m]
Fatal(m) == [st |-> "fatal", m |-> m]

RECURSIVE EscapeKey(_)
EscapeKey(s) ==
  IF s = "" THEN ""
  ELSE (IF Head(s) = "~" THEN "~0" ELSE IF Head(s) = "/" THEN "~1" ELSE Head(s))
       \o EscapeKey(Tail(s))
\* jisp_build_path_for_key_temp
BuildPathForKey(key) == "/" \o EscapeKey(key)

\* pop_and_store once both operands are known: r2 is the root after the second
\* remove was logged; the value node itself becomes the new member
StoreMember(m1, d, k, value, r2) ==
  Ok(PutRoot(MoveUnder(m1, d, <<StackPos(r2), StackLen(r2)>>, <<Len(r2.v) + 1>>), d,
             RecordPatch(ObjAdd(SetPos(r2, <<StackPos(r2)>>, ArrRemoveLast(Stack(r2))), k, value),
                         IF IsNone(ObjGet(r2, k)) THEN "add" ELSE "replace",
                         BuildPathForKey(k), value)))

\* pop_and_store after the key was popped
StoreKeyed(m1, d, key) ==
  IF ~IsStr(key) THEN Fatal(m1)
  ELSE StoreMember(m1, d, key.v, StackTop(RootOf(m1, d)), LogRemoveLast(RootOf(m1, d)))

\* pop_and_store
Op_pop_and_store(m, d) ==
  IF ~RequireStack(RootOf(m, d), 2) THEN Fatal(m)
  ELSE StoreKeyed(PopLogged(m, d), d, StackTop(RootOf(m, d)))

\* a faulty duplicate_top: the copy is logged and never appended
DuplicateTopLogsOnly(m, d) ==
  IF ~RequireStack(RootOf(m, d), 1) THEN Fatal(m)
  ELSE Ok(PutRoot(m, d, RecordPatch(RootOf(m, d), "add", "/stack/-", StackTop(RootOf(m, d)))))

\* duplicate_top
Op_duplicate_top(m, d) ==
  IF ~RequireStack(RootOf(m, d), 1) THEN Fatal(m)
  ELSE LET r0 == RootOf(m, d)
           last == StackTop(r0)
           \* remove_last and append of the same node leave the array as it was
           r1 == RecordPatch(LogRemoveLast(r0), "add", "/stack/-", last)
           r2 == RecordPatch(PushRaw(r1, last), "add", "/stack/-", last)
       IN Ok(PutRoot(m, d, r2))

\* the outcome [m, group, val] of popping one operand into a group
Popped(m1, d, g, val) == [m |-> PutRoot(m1, d, g.root), group |-> g.group, val |-> val]

\* the popped node is gone (m1); its remove patch goes to the group
LogPopped(m1, d, group, path, val) ==
  Popped(m1, d, GroupAdd([root |-> RootOf(m1, d), group |-> group], "remove", path, val), val)

\* yyjson_mut_arr_remove_last followed by residual_group_add_patch_with_val
PopGrouped(m, d, group) ==
  LogPopped(PopRaw(m, d), d, group, TopPath(RootOf(m, d)), StackTop(RootOf(m, d)))

\* the "pop the path operand into the group" prologue of get, set and append
PopPathGrouped(m, d) == PopGrouped(m, d, GroupBegin(RootOf(m, d)))

\* the "pop the value operand into the group" step of set and append
PopValueGrouped(p, d) == PopGrouped(p.m, d, p.group)

\* the common epilogue: one more patch for the group, then the commit
CommitWith(m, d, root, group, op, path, val) ==
  Ok(PutRoot(m, d, GroupCommit(GroupAdd([root |-> root, group |-> group], op, path, val))))

\* add_two_top after both operands were popped: the sum is formed in double
\* and is exact for the integers used here (magnitude below 2^53); the value
\* pushed is an integer, the value of the patch a real
AddPopped(val1, q, d) ==
  IF ~IsNum(val1) \/ ~IsNum(q.val) THEN Fatal(q.m)
  ELSE CommitWith(q.m, d, PushRaw(RootOf(q.m, d), JInt(GetSint(val1) + GetSint(q.val))),
                  q.group, "add", "/stack/-", JReal(GetSint(val1) + GetSint(q.val)))

AddSecond(p, d) == AddPopped(p.val, PopValueGrouped(p, d), d)

\* an add_two_top that pops its first operand before it counts the stack
AddTwoTopPopsFirst(m, d) ==
  IF ~RequireStack(RootOf(m, d), 1) THEN Fatal(m)
  ELSE IF ~RequireStack(RootOf(m, d), 2) THEN Fatal(PopLogged(m, d))
  ELSE AddSecond(PopPathGrouped(m, d), d)

\* add_two_top
Op_add_two_top(m, d) ==
  IF ~RequireStack(RootOf(m, d), 2) THEN Fatal(m)
  ELSE AddSecond(PopPathGrouped(m, d), d)

\* json_get after the path was resolved
GetResolved(p, d, res) ==
  IF ~res.ok THEN Fatal(p.m)
  ELSE CommitWith(p.m, d, PushRaw(RootOf(p.m, d), AtPos(RootOf(p.m, d), res.pos)),
                  p.group, "add", "/stack/-", AtPos(RootOf(p.m, d), res.pos))

\* json_get after the path was popped
GetPopped(p, d) ==
  IF ~IsStr(p.val) THEN Fatal(p.m)
  ELSE GetResolved(p, d, ResolvePath(RootOf(p.m, d), p.val.v))

\* json_get
Op_get(m, d) ==
  IF ~RequireStack(RootOf(m, d), 1) THEN Fatal(m)
  ELSE GetPopped(PopPathGrouped(m, d), d)

\* the node at pos of document td got the tag and payload of val
Assigned(m, m1, td, pos) ==
  IF pos = <<>> /\ IsNone(m.docs[td].ostack) /\ StackPos(RootOf(m, td)) # 0
  THEN [m1 EXCEPT !.docs[td].ostack = Stack(RootOf(m, td))]
  ELSE m1

\* assign_scalar_to_target on the node at pos of document td: the node keeps
\* its place, its tag and payload become those of val
AssignScalar(m, td, pos, val) ==
  Assigned(m, PutRoot(DetachBelow(m, td, pos), td, SetPos(RootOf(m, td), pos, val)), td, pos)

\* json_set after the assignment
SetAssigned(m3, d, group, path, val) ==
  CommitWith(m3, d, RootOf(m3, d), group, "replace", path, val)

\* json_set after the path was resolved
SetResolved(path, q, d, res) ==
  IF ~res.ok THEN Fatal(q.m)
  ELSE IF ~IsScalar(q.val) THEN Fatal(q.m)
  ELSE SetAssigned(AssignScalar(q.m, d, res.pos, q.val), d, q.group, path, q.val)

\* json_set after both operands were popped
SetPopped(path, q, d) == SetResolved(path, q, d, ResolvePath(RootOf(q.m, d), path))

\* json_set after the path was popped
SetPathPopped(p, d) ==
  IF ~IsStr(p.val) THEN Fatal(p.m) ELSE SetPopped(p.val.v, PopValueGrouped(p, d), d)

\* json_set
Op_set(m, d) ==
  IF ~RequireStack(RootOf(m, d), 2) THEN Fatal(m)
  ELSE SetPathPopped(PopPathGrouped(m, d), d)

\* json_append after the path was resolved
AppendResolved(path, q, d, res) ==
  IF ~res.ok \/ ~IsArr(AtPos(RootOf(q.m, d), res.pos)) THEN Fatal(q.m)
  ELSE CommitWith(q.m, d,
                  SetPos(RootOf(q.m, d), res.pos,
                         ArrAppend(AtPos(RootOf(q.m, d), res.pos), q.val)),
                  q.group, "add", IF path = "/" THEN "/-" ELSE path \o "/-", q.val)

\* json_append after both operands were popped
AppendPopped(path, q, d) == AppendResolved(path, q, d, ResolvePath(RootOf(q.m, d), path))

\* json_append after the path was popped
AppendPathPopped(p, d) ==
  IF ~IsStr(p.val) THEN Fatal(p.m) ELSE AppendPopped(p.val.v, PopValueGrouped(p, d), d)

\* json_append
Op_append(m, d) ==
  IF ~RequireStack(RootOf(m, d), 2) THEN Fatal(m)
  ELSE AppendPathPopped(PopPathGrouped(m, d), d)

(***************************************************************************)
(* Reference counting and the pointer stack.                               *)
(***************************************************************************)
MAX_PTR_STACK == 64

\* ensure_ref_field: root is an object with an integer member "ref"
EnsureRefField(m, d) ==
  LET m1 == EnsureRootObject(m, d)
      root == RootOf(m1, d)
      ref == ObjGet(root, "ref")
  IN IF IsNone(ref) THEN PutRoot(m1, d, ObjAdd(root, "ref", JInt(0)))
     ELSE AssignScalar(m1, d, <<ObjIdx(root, "ref")>>, JInt(GetSint(ref)))

SetRef(m, d, n) == PutRoot(m, d, SetPos(RootOf(m, d), <<ObjIdx(RootOf(m, d), "ref")>>, JInt(n)))
RefCount(root) == GetSint(ObjGet(root, "ref"))

\* the count written back by jpm_doc_retain, m1 the machine after ensure_ref_field
Retained(m1, d) ==
  SetRef(m1, d, (IF RefCount(RootOf(m1, d)) < 0 THEN 0 ELSE RefCount(RootOf(m1, d))) + 1)

\* jpm_doc_retain
DocRetain(m, d) == Retained(EnsureRefField(m, d), d)

\* the count written back by jpm_doc_release and the free at zero
StoreCount(m1, d, new) ==
  IF new = 0 THEN [SetRef(m1, d, new) EXCEPT !.docs[d].freed = TRUE] ELSE SetRef(m1, d, new)

Released(m1, d) ==
  StoreCount(m1, d, IF RefCount(RootOf(m1, d)) > 0 THEN RefCount(RootOf(m1, d)) - 1
                    ELSE RefCount(RootOf(m1, d)))

\* a jpm_doc_release that leaves the count alone
DocReleaseKeeps(m, d) == EnsureRefField(m, d)

\* jpm_doc_release: the document is freed when the count reaches zero
DocRelease(m, d) == Released(EnsureRefField(m, d), d)

\* the jpm_ptr that jpm_return fills in on success
Handle(d, pos) == [doc |-> d, att |-> TRUE, pos |-> pos, val |-> None]
PtrTop(m) == m.ptrs[Len(m.ptrs)]

\* ptr_stack_push without its check of the capacity
PtrStackPushUnbounded(m2, d, pos) == Ok([m2 EXCEPT !.ptrs = Append(@, Handle(d, pos))])

\* ptr_stack_push, m2 the machine after jpm_doc_retain
PtrStackPush(m2, d, pos) ==
  IF Len(m2.ptrs) >= MAX_PTR_STACK THEN Fatal(m2)
  ELSE Ok([m2 EXCEPT !.ptrs = Append(@, Handle(d, pos))])

\* a jpm_return that retains the document before it resolves the path
PtrNewRetainsFirst(m1, d, res) ==
  IF ~res.ok THEN Fatal(DocRetain(m1, d)) ELSE PtrStackPush(DocRetain(m1, d), d, res.pos)

\* jpm_return without its jpm_doc_retain
PtrNewResolvedNoRetain(m1, d, res) ==
  IF ~res.ok THEN Fatal(m1) ELSE PtrStackPush(m1, d, res.pos)

\* jpm_return
PtrNewResolved(m1, d, res) ==
  IF ~res.ok THEN Fatal(m1) ELSE PtrStackPush(DocRetain(m1, d), d, res.pos)

\* ptr_new after the path was popped
PtrNewPopped(m1, d, path) ==
  IF ~IsStr(path) THEN Fatal(m1)
  ELSE PtrNewResolved(m1, d, ResolvePath(RootOf(m1, d), path.v))

\* ptr_new
Op_ptr_new(m, d) ==
  IF ~RequireStack(RootOf(m, d), 1) THEN Fatal(m)
  ELSE PtrNewPopped(PopLogged(m, d), d, StackTop(RootOf(m, d)))

\* ptr_release_op: the document argument is not used
Op_ptr_release(m, d) ==
  IF Len(m.ptrs) = 0 THEN Fatal(m)
  ELSE Ok(DocRelease([m EXCEPT !.ptrs = Front(@)], PtrTop(m).doc))

\* jisp_stack_push_copy_and_log on root["stack"]
PushLogged(m, d, x) ==
  PutRoot(m, d, RecordPatch(PushRaw(RootOf(m, d), x), "add", "/stack/-", x))

\* ptr_get
Op_ptr_get(m, d) ==
  IF ~HasStack(RootOf(m, d)) THEN Fatal(m)
  ELSE IF Len(m.ptrs) = 0 THEN Fatal(m)
  ELSE IF IsNone(RefValue(m, PtrTop(m))) THEN Fatal(m)
  ELSE Ok(PushLogged(m, d, RefValue(m, PtrTop(m))))

\* ptr_set that pops the value and leaves the target as it was
PtrSetPoppedKeepsTarget(m1, val) == IF ~IsScalar(val) THEN Fatal(m1) ELSE Ok(m1)

\* ptr_set after the value was popped
PtrSetPopped(m1, val) ==
  IF ~IsScalar(val) THEN Fatal(m1)
  ELSE IF PtrTop(m1).att THEN Ok(AssignScalar(m1, PtrTop(m1).doc, PtrTop(m1).pos, val))
  ELSE Ok([m1 EXCEPT !.ptrs[Len(m1.ptrs)].val = val])

\* ptr_set: the target is written through the raw pointer, whatever it is
Op_ptr_set(m, d) ==
  IF ~RequireStack(RootOf(m, d), 1) THEN Fatal(m)
  ELSE IF Len(m.ptrs) = 0 THEN Fatal(m)
  ELSE PtrSetPopped(PopLogged(m, d), StackTop(RootOf(m, d)))

(***************************************************************************)
(* exit, print_json, print_error, load, store.                             *)
(***************************************************************************)
\* set_exit_interrupt (op_exit)
Op_exit(m, d) ==
  LET m1 == EnsureRootObject(m, d)
  IN Ok(PutRoot(m1, d, ObjAdd(RootOf(m1, d), "_interrupt_exit", JBool(TRUE))))

ExitPending(root) == GetBool(ObjGet(root, "_interrupt_exit"))

\* print_json only writes to stdout
Op_print_json(m, d) == Ok(m)

\* op_print_error
Op_print_error(m, d) ==
  IF ~RequireStack(RootOf(m, d), 1) THEN Fatal(m) ELSE Ok(PopLogged(m, d))

\* what a file read by load may hold; None is a read or parse failure
LoadOutcomes == {None, JInt(7), JObj(<<KV("a", JInt(1))>>)}

\* op_load after the path was popped
LoadPopped(m1, d, path, file) ==
  IF ~IsStr(path) \/ IsNone(file) THEN Fatal(m1) ELSE Ok(PushLogged(m1, d, file))

\* op_load
Op_load(m, d, file) ==
  IF ~RequireStack(RootOf(m, d), 1) THEN Fatal(m)
  ELSE LoadPopped(PopLogged(m, d), d, StackTop(RootOf(m, d)), file)

\* op_store after the path was popped
StorePopped(m1, d, path, written) ==
  IF ~IsStr(path) THEN Fatal(m1)
  ELSE IF written THEN Ok(PopLogged(m1, d)) ELSE Fatal(PopLogged(m1, d))

\* op_store: written tells whether yyjson_mut_val_write_file succeeded
Op_store(m, d, written) ==
  IF ~RequireStack(RootOf(m, d), 2) THEN Fatal(m)
  ELSE StorePopped(PopLogged(m, d), d, StackTop(RootOf(m, d)), written)

(***************************************************************************)
(* undo.                                                                   *)
(***************************************************************************)
\* an undo_op_add that leaves the pushed value on the stack
UndoOpAddKeeps(root, path) == root

\* undo_op_add
UndoOpAdd(root, path) ==
  IF path = "/stack/-" /\ HasStack(root) /\ StackLen(root) > 0
  THEN SetPos(root, <<StackPos(root)>>, ArrRemoveLast(Stack(root)))
  ELSE root

\* a faulty undo_op_remove: the removed value is not put back
UndoOpRemoveDropsValue(root, path, valv) == root

\* undo_op_remove
UndoOpRemove(root, path, valv) ==
  IF IsNone(valv) THEN root
  ELSE IF Len(path) >= 7 /\ SubSeq(path, 1, 7) = "/stack/" /\ HasStack(root)
       THEN PushRaw(root, valv)
  ELSE root

\* undo_one_patch: [st, root]
UndoOnePatch(root, patch) ==
  IF ~IsObj(patch) \/ ~IsStr(ObjGet(patch, "op")) \/ ~IsStr(ObjGet(patch, "path"))
  THEN [st |-> "fatal", root |-> root]
  ELSE LET op == ObjGet(patch, "op").v
           path == ObjGet(patch, "path").v
       IN [st |-> "ok",
           root |-> IF op = "add" THEN UndoOpAdd(root, path)
                    ELSE IF op = "remove" THEN UndoOpRemove(root, path, ObjGet(patch, "value"))
                    ELSE root]

\* the while loop of perform_undo over a grouped entry, last patch first
RECURSIVE UndoGroup(_, _)
UndoGroup(root, patches) ==
  IF patches = <<>> THEN [st |-> "ok", root |-> root]
  ELSE LET r == UndoOnePatch(root, Last(patches))
       IN IF r.st = "fatal" THEN r ELSE UndoGroup(r.root, Front(patches))

\* perform_undo: [st, root]
PerformUndo(root) ==
  IF ~IsArr(Residual(root)) \/ ArrSize(Residual(root)) = 0
  THEN [st |-> "fatal", root |-> root]
  ELSE LET entry == Last(Residual(root).v)
           r1 == SetPos(root, <<ObjIdx(root, "residual")>>, ArrRemoveLast(Residual(root)))
       IN IF IsObj(entry) THEN UndoOnePatch(r1, entry)
          ELSE IF IsArr(entry) THEN UndoGroup(r1, entry.v)
          ELSE [st |-> "fatal", root |-> r1]

\* a document that yyjson_mut_doc_new just created, with root as its root
NewDoc(m, root) ==
  [m EXCEPT !.docs = Append(@, [root |-> root, freed |-> FALSE, ostack |-> None])]
NewId(m) == Len(m.docs) + 1
\* yyjson_mut_doc_free
FreeDoc(m, d) == [m EXCEPT !.docs[d].freed = TRUE]

\* undo_jisp_op after perform_undo ran on the copy: m2 holds the sandbox
Undone(m2, d, sub, u) ==
  IF u.st = "fatal" THEN Fatal(m2) ELSE Ok(FreeDoc(PushLogged(m2, d, u.root), sub))

\* undo_jisp_op with the copy u of the program after perform_undo
UndoCopied(m1, d, u) == Undone(NewDoc(m1, u.root), d, NewId(m1), u)

\* undo_jisp_op after the program was popped
UndoPopped(m1, d, program) ==
  IF ~IsObj(program) THEN Fatal(m1) ELSE UndoCopied(m1, d, PerformUndo(program))

\* undo_jisp_op
Op_undo(m, d) ==
  IF ~RequireStack(RootOf(m, d), 1) THEN Fatal(m)
  ELSE UndoPopped(PopLogged(m, d), d, StackTop(RootOf(m, d)))

(***************************************************************************)
(* The walker: call stack bookkeeping, the exit flag, frames.              *)
(***************************************************************************)
\* an append through the stack pointer an activation fetched when it started
Push(m, d, x) ==
  IF IsNone(m.docs[d].ostack) THEN PutRoot(m, d, PushRaw(RootOf(m, d), x))
  ELSE [m EXCEPT !.docs[d].ostack = ArrAppend(@, x)]
\* yyjson_mut_arr_size of that stack
HeldStackLen(m, d) ==
  IF IsNone(m.docs[d].ostack) THEN StackLen(RootOf(m, d)) ELSE ArrSize(m.docs[d].ostack)

\* yyjson_mut_arr_remove_last on the array at apos of document d
RemoveLastAt(m, d, apos) ==
  LET root == RootOf(m, d)
      a == AtPos(root, apos)
  IN IF ArrSize(a) = 0 THEN m
     ELSE PutRoot(DetachUnder(m, d, Append(apos, Len(a.v))), d, SetPos(root, apos, ArrRemoveLast(a)))

\* yyjson_mut_obj_remove_key on the root: the entries behind a removed one move up
RootRemoveKey(m, d, key) ==
  LET root == RootOf(m, d)
      Gone(i) == root.v[i].k = key
      Shift(i) == Cardinality({j \in 1..(i - 1) : Gone(j)})
      F(r) == IF r.doc = d /\ r.att /\ r.pos # <<>>
              THEN IF Gone(r.pos[1]) THEN [r EXCEPT !.att = FALSE, !.val = AtPos(root, r.pos)]
                   ELSE [r EXCEPT !.pos[1] = @ - Shift(@)]
              ELSE r
  IN PutRoot(MapRefs(m, F), d, ObjRemoveKey(root, key))

CallStack(root) == ObjGet(root, "call_stack")

\* ensure_call_stack: [m, pos], pos the array it returns (a fresh one, added
\* behind the existing member, when root["call_stack"] is no array)
EnsureCallStack(m, d) ==
  LET m1 == EnsureRootObject(m, d)
      root == RootOf(m1, d)
  IN IF IsArr(CallStack(root)) THEN [m |-> m1, pos |-> <<ObjIdx(root, "call_stack")>>]
     ELSE [m |-> PutRoot(m1, d, ObjAdd(root, "call_stack", JArr(<<>>))),
           pos |-> <<Len(root.v) + 1>>]

\* yyjson_mut_arr_add_strcpy on the array ensure_call_stack returned
AddCallEntry(e, d, path) ==
  PutRoot(e.m, d, SetPos(RootOf(e.m, d), e.pos,
                         ArrAppend(AtPos(RootOf(e.m, d), e.pos), JStr(path))))

\* push_call_stack
PushCallStack(m, d, path) == AddCallEntry(EnsureCallStack(m, d), d, path)

\* yyjson_mut_arr_remove_last on the array ensure_call_stack returned
RemoveCallEntry(e, d) == RemoveLastAt(e.m, d, e.pos)

\* pop_call_stack without the removal
PopCallStackKeepsEntry(m, d) == EnsureCallStack(m, d).m

\* pop_call_stack
PopCallStack(m, d) == RemoveCallEntry(EnsureCallStack(m, d), d)

\* check_and_clear_exit_interrupt: [hit, m]
CheckAndClearExit(m, d) ==
  LET m1 == EnsureRootObject(m, d)
  IN IF ExitPending(RootOf(m1, d))
     THEN [hit |-> TRUE, m |-> RootRemoveKey(m1, d, "_interrupt_exit")]
     ELSE [hit |-> FALSE, m |-> m1]

\* one invocation of process_ep_array: the array it iterates (a raw pointer),
\* the iterator (idx elements consumed of the max it had at init) and path_prefix;
\* by, root0 and ptrs0 are history, set for the frame an enter started
Frame(d, att, pos, val, n, path) ==
  [kind |-> "walk", doc |-> d, att |-> att, pos |-> pos, val |-> val,
   idx |-> 0, max |-> n, path |-> path, by |-> "", root0 |-> None, ptrs0 |-> <<>>]

\* the elements a frame iterates
FrameElems(m, f) ==
  IF f.att /\ IsArr(AtPos(RootOf(m, f.doc), f.pos)) THEN AtPos(RootOf(m, f.doc), f.pos).v
  ELSE IF IsArr(f.val) THEN f.val.v ELSE <<>>
\* yyjson_mut_arr_iter_next returns an element
HasNext(m, f) == f.idx < f.max /\ f.idx < Len(FrameElems(m, f))

\* process_ep_array after push_call_stack: the stack is fetched and the
\* iterator set up; it sees the new entry when the walked array is call_stack
WalkPushed(m1, d, att, pos, val, path) ==
  IF ~HasStack(RootOf(m1, d)) THEN Fatal(m1)
  ELSE Ok([m1 EXCEPT !.cs = Append(@,
             Frame(d, att, pos, val,
                   IF att THEN ArrSize(AtPos(RootOf(m1, d), pos)) ELSE Len(val.v), path))])

\* process_ep_array from its entry to the loop
StartWalk(m, d, att, pos, val, path) ==
  IF ~IsArr(IF att THEN AtPos(RootOf(m, d), pos) ELSE val) THEN Fatal(m)
  ELSE WalkPushed(PushCallStack(m, d, path), d, att, pos, val, path)

\* the end of process_ep_array: pop_call_stack and return
EndWalk(m) == [PopCallStack(m, Last(m.cs).doc) EXCEPT !.cs = Front(@)]

\* process_entrypoint
ProcessEntrypoint(m, d) ==
  LET root == RootOf(m, d)
  IN IF IsNone(ObjGet(root, "entrypoint")) THEN Ok(m)
     ELSE StartWalk(m, d, TRUE, <<ObjIdx(root, "entrypoint")>>, None, "/entrypoint")

(***************************************************************************)
(* Opcodes that enter frames: enter, map_over, test, step.  Each leaves an *)
(* activation record on m.cs for the part of the handler that runs after   *)
(* the frames it started have returned.  root0 and ptrs0 are history: the  *)
(* root of the document and the pointer stack when the opcode was invoked. *)
(***************************************************************************)
HeldTop(m, d) ==
  IF IsNone(m.docs[d].ostack) THEN StackTop(RootOf(m, d)) ELSE Last(m.docs[d].ostack.v)
PopHeld(m, d) ==
  IF IsNone(m.docs[d].ostack) THEN PopRaw(m, d)
  ELSE [m EXCEPT !.docs[d].ostack = ArrRemoveLast(@)]

\* enter with a path operand, after the resolution
EnterResolved(m1, d, path, res) ==
  IF ~res.ok \/ ~IsArr(AtPos(RootOf(m1, d), res.pos)) THEN Fatal(m1)
  ELSE StartWalk(m1, d, TRUE, res.pos, None, path)

\* enter after the operand was popped
EnterPopped(m1, d, top) ==
  IF IsStr(top) THEN EnterResolved(m1, d, top.v, ResolvePath(RootOf(m1, d), top.v))
  ELSE IF IsArr(top) THEN StartWalk(m1, d, FALSE, <<>>, top, "<anonymous>")
  ELSE Fatal(m1)

\* history: the frame r started belongs to the enter invoked in machine m
EnterStarted(r, m, d) ==
  IF r.st = "fatal" THEN r
  ELSE Ok([r.m EXCEPT !.cs[Len(r.m.cs)].by = "enter",
                      !.cs[Len(r.m.cs)].root0 = RootOf(m, d),
                      !.cs[Len(r.m.cs)].ptrs0 = m.ptrs])

\* an enter that leaves its operand on the stack
EnterKeepsOperand(m, d) ==
  IF ~RequireStack(RootOf(m, d), 1) THEN Fatal(m)
  ELSE EnterStarted(EnterPopped(m, d, StackTop(RootOf(m, d))), m, d)

\* enter
Op_enter(m, d) ==
  IF ~RequireStack(RootOf(m, d), 1) THEN Fatal(m)
  ELSE EnterStarted(EnterPopped(PopRaw(m, d), d, StackTop(RootOf(m, d))), m, d)

\* map_over after the result array was pushed: log it and commit the group
MapPushed(m1, d, rec) ==
  Ok([PutRoot(m1, d, GroupCommit(GroupAdd([root |-> RootOf(m1, d), group |-> rec.group],
                                          "add", "/stack/-", JArr(rec.result))))
      EXCEPT !.cs = Front(@)])

\* map_over_iterate, from the top of its loop: hand out the next data point
\* and call the function, or return to map_over, which pushes the result
MapIterate(m) ==
  LET k == Len(m.cs)
      rec == m.cs[k]
      d == rec.doc
  IN IF rec.i < Len(rec.data)
     THEN StartWalk([Push(m, d, rec.data[rec.i + 1]) EXCEPT !.cs[k].i = rec.i + 1],
                    d, FALSE, <<>>, rec.func, "/map_over/function")
     ELSE MapPushed(Push(m, d, JArr(rec.result)), d, rec)

\* map_over_iterate collecting the result without the check of the stack size
MapCollectUnchecked(m) ==
  Ok([PopHeld(m, m.cs[Len(m.cs)].doc)
      EXCEPT !.cs[Len(m.cs)].result = Append(@, HeldTop(m, m.cs[Len(m.cs)].doc))])

\* map_over_iterate after the function returned: check and collect its result
MapCollect(m) ==
  LET k == Len(m.cs)
      rec == m.cs[k]
      d == rec.doc
  IN IF HeldStackLen(m, d) # rec.orig + 1 THEN Fatal(m)
     ELSE Ok([PopHeld(m, d) EXCEPT !.cs[k].result = Append(@, HeldTop(m, d))])

\* map_over after both operands were popped
MapPopped(m, func, q, d) ==
  IF ~IsArr(q.val) THEN Fatal(q.m)
  ELSE MapIterate([q.m EXCEPT !.cs = Append(@,
         [kind |-> "map", doc |-> d, data |-> q.val.v, func |-> func, i |-> 0,
          result |-> <<>>, group |-> q.group, orig |-> StackLen(RootOf(q.m, d)),
          root0 |-> RootOf(m, d), ptrs0 |-> m.ptrs])])

\* map_over after the function was popped
MapFuncPopped(m, p, d) ==
  IF ~IsArr(p.val) THEN Fatal(p.m) ELSE MapPopped(m, p.val, PopValueGrouped(p, d), d)

\* map_over
Op_map_over(m, d) ==
  IF ~RequireStack(RootOf(m, d), 2) THEN Fatal(m)
  ELSE MapFuncPopped(m, PopPathGrouped(m, d), d)

RECURSIVE JEquals(_, _)
\* yyjson_mut_equals
JEquals(a, b) ==
  IF a.t # b.t THEN FALSE
  ELSE IF IsArr(a)
       THEN Len(a.v) = Len(b.v) /\ \A i \in 1..Len(a.v) : JEquals(a.v[i], b.v[i])
  ELSE IF IsObj(a)
       THEN Len(a.v) = Len(b.v)
            /\ \A i \in 1..Len(a.v) : /\ ~IsNone(ObjGet(b, a.v[i].k))
                                      /\ JEquals(a.v[i].v, ObjGet(b, a.v[i].k))
  ELSE a.v = b.v

\* unsafe_yyjson_get_type: both kinds of number are YYJSON_TYPE_NUM
TypeOf(x) == IF IsNum(x) THEN "num" ELSE x.t

\* json_subset_equals with objects compared strictly as well
SubsetEqualsStrict(subset, superset) == JEquals(subset, superset)

RECURSIVE SubsetEquals(_, _)
\* json_subset_equals
SubsetEquals(subset, superset) ==
  IF TypeOf(subset) # TypeOf(superset) THEN FALSE
  ELSE IF IsObj(subset)
       THEN \A i \in 1..Len(subset.v) :
              /\ ~IsNone(ObjGet(superset, subset.v[i].k))
              /\ SubsetEquals(subset.v[i].v, ObjGet(superset, subset.v[i].k))
  ELSE JEquals(subset, superset)

\* jisp_create_error plus the details op_test adds
TestFailure(expected, actual) ==
  JObj(<<KV("error", JBool(TRUE)), KV("kind", JStr("test_failure")),
         KV("message", JStr("Test failed: result mismatch")),
         KV("details", JObj(<<KV("expected", expected), KV("actual", actual)>>))>>)

\* op_test after process_entrypoint(sub_doc) returned
TestFinish(m) ==
  LET rec == Last(m.cs)
      d == rec.doc
      result == RootOf(m, rec.sub)
      err == TestFailure(rec.expected, result)
      m1 == IF SubsetEquals(rec.expected, result) THEN m
            ELSE LET m0 == Push(m, d, err)
                 IN PutRoot(m0, d, RecordPatch(RootOf(m0, d), "add", "/stack/-",
                                               IF HeldStackLen(m0, d) > 0 THEN err ELSE None))
  IN [st |-> "ok", m |-> [DocRelease(m1, rec.sub) EXCEPT !.cs = Front(@)],
      out |-> IF SubsetEquals(rec.expected, result) THEN "match" ELSE "mismatch",
      actual |-> result]

\* an op_test that goes on after its sandbox run was aborted
TestEnteredCaught(r) == IF Last(r.m.cs).kind = "test" THEN TestFinish(r.m) ELSE r

\* op_test after process_entrypoint(sub_doc) was called: it returned at once
\* (the sandbox has no entrypoint) or a walker frame is running
TestEntered(r) ==
  IF r.st = "fatal" THEN r
  ELSE IF Last(r.m.cs).kind = "test" THEN TestFinish(r.m)
  ELSE r

\* op_test after both operands were popped: the sandbox is built and retained
TestPopped(m, m2, d, expected, program) ==
  TestEntered(ProcessEntrypoint(
    [DocRetain(NewDoc(m2, program), NewId(m2))
     EXCEPT !.cs = Append(@, [kind |-> "test", doc |-> d, sub |-> NewId(m2),
                              expected |-> expected,
                              root0 |-> RootOf(m, d), ptrs0 |-> m.ptrs])],
    NewId(m2)))

\* op_test after the expectation was popped
TestExpectedPopped(m, m1, d, expected) ==
  TestPopped(m, PopLogged(m1, d), d, expected, StackTop(RootOf(m1, d)))

\* op_test
Op_test(m, d) ==
  IF ~RequireStack(RootOf(m, d), 2) THEN Fatal(m)
  ELSE TestExpectedPopped(m, PopLogged(m, d), d, StackTop(RootOf(m, d)))

\* the tail of step_jisp_op: push a copy of the sandbox root, release the sandbox
StepPushResult(m, d, sub) ==
  LET result == RootOf(m, sub)
      m1 == Push(m, d, result)
  IN DocRelease(PutRoot(m1, d, RecordPatch(RootOf(m1, d), "add", "/stack/-", result)), sub)

\* step_jisp_op after process_one_instruction returned
StepFinish(m) ==
  LET rec == Last(m.cs)
      \* sub_root is the pointer fetched before the instruction ran
      m1 == IF IsNone(m.docs[rec.sub].ostack)
            THEN PutRoot(m, rec.sub, ObjAdd(RootOf(m, rec.sub), "pc", JInt(rec.pc + 1)))
            ELSE m
  IN Ok([StepPushResult(m1, rec.doc, rec.sub) EXCEPT !.cs = Front(@)])

\* step_jisp_op with pc read (and added when it was missing or no integer)
StepCounted(m, m3, d, sub, pc, ep) ==
  IF ~IsArr(ep) THEN Ok(StepPushResult(m3, d, sub))
  ELSE IF ~(pc >= 0 /\ pc < Len(ep.v)) THEN Ok(StepPushResult(m3, d, sub))
  ELSE IF ~HasStack(RootOf(m3, sub)) THEN Fatal(m3)
  ELSE Ok([m3 EXCEPT !.cs = Append(@, [kind |-> "step", doc |-> d, sub |-> sub,
                                      pc |-> pc, phase |-> "exec",
                                      root0 |-> RootOf(m, d), ptrs0 |-> m.ptrs])])

\* step_jisp_op with the retained sandbox: read pc
StepRetained(m, m2, d, sub, pcv) ==
  IF IsInt(pcv) THEN StepCounted(m, m2, d, sub, pcv.v, ObjGet(RootOf(m2, sub), "entrypoint"))
  ELSE StepCounted(m, PutRoot(m2, sub, ObjAdd(RootOf(m2, sub), "pc", JInt(0))), d, sub, 0,
                   ObjGet(RootOf(m2, sub), "entrypoint"))

\* step_jisp_op with the sandbox built
StepCopied(m, m2, d, sub) == StepRetained(m, m2, d, sub, ObjGet(RootOf(m2, sub), "pc"))

\* step_jisp_op after the program was popped
StepPopped(m, m1, d, program) ==
  IF ~IsObj(program) THEN Fatal(m1)
  ELSE StepCopied(m, DocRetain(NewDoc(m1, program), NewId(m1)), d, NewId(m1))

\* step_jisp_op up to the call of process_one_instruction
Op_step(m, d) ==
  IF ~RequireStack(RootOf(m, d), 1) THEN Fatal(m)
  ELSE StepPopped(m, PopLogged(m, d), d, StackTop(RootOf(m, d)))

(***************************************************************************)
(* Instruction dispatch.                                                   *)
(***************************************************************************)
\* jisp_op_registry_init
OpNames ==
  {"pop_and_store", "duplicate_top", "add_two_top", "print_json", "undo", "map_over",
   "get", "set", "append", "ptr_new", "ptr_release", "ptr_get", "ptr_set", "enter",
   "exit", "test", "print_error", "load", "store", "step"}

\* which branch of process_one_instruction / process_ep_object an element takes
InstrKind(root, elem) ==
  IF IsObj(elem)
  THEN LET dot == ObjGet(elem, ".")
       IN IF IsNone(dot) THEN "object"
          ELSE IF IsArr(dot) THEN "nested"
          ELSE IF IsStr(dot)
               THEN (IF IsArr(ObjGet(root, dot.v)) THEN "macro"
                     ELSE IF dot.v \in OpNames THEN dot.v
                     ELSE "unknown")
          ELSE "bad"
  ELSE IF IsStr(elem) \/ IsNum(elem) \/ IsArr(elem) THEN "literal"
  ELSE "bad"

NoPend == [ready |-> FALSE, hit |-> FALSE, m |-> Machine, d |-> 0, elem |-> None,
           att |-> FALSE, pos |-> <<>>, path |-> "", idx |-> 0]

\* a loop head whose iterator does not advance
PendWalkStays(k, top, c, elem) ==
  [ready |-> ~c.hit, hit |-> c.hit, m |-> c.m,
   d |-> top.doc, elem |-> elem, att |-> c.m.cs[k].att,
   pos |-> Append(c.m.cs[k].pos, top.idx + 1), path |-> top.path, idx |-> top.idx]

\* a walker frame with an element left: c is the outcome of
\* check_and_clear_exit_interrupt, elem the element the iterator returned
PendWalk(k, top, c, elem) ==
  [ready |-> ~c.hit, hit |-> c.hit, m |-> [c.m EXCEPT !.cs[k].idx = top.idx + 1],
   d |-> top.doc, elem |-> elem, att |-> c.m.cs[k].att,
   pos |-> Append(c.m.cs[k].pos, top.idx + 1), path |-> top.path, idx |-> top.idx]

\* a step activation about to run instruction pc of its sandbox, at position ep
PendStep(k, top, ep) ==
  [ready |-> TRUE, hit |-> FALSE, m |-> [Machine EXCEPT !.cs[k].phase = "ret"],
   d |-> top.sub, elem |-> AtPos(RootOf(Machine, top.sub), ep),
   att |-> TRUE, pos |-> ep, path |-> "/entrypoint", idx |-> top.pc]

\* what an activation does next
PendOf(k, top) ==
  IF top.kind = "walk"
  THEN IF ~HasNext(Machine, top) THEN NoPend
       ELSE PendWalk(k, top, CheckAndClearExit(Machine, top.doc),
                     FrameElems(Machine, top)[top.idx + 1])
  ELSE IF top.kind = "step" /\ top.phase = "exec"
  THEN PendStep(k, top, <<ObjIdx(RootOf(Machine, top.sub), "entrypoint"), top.pc + 1>>)
  ELSE NoPend

\* What the top activation does next.  A walker frame with an element left
\* checks the exit flag (hit) and otherwise processes the element; a step
\* activation in phase "exec" processes instruction pc of its sandbox.
\* m is the machine at the call of process_one_instruction.
Pend ==
  IF status # "running" \/ cstack = <<>> THEN NoPend
  ELSE PendOf(Len(cstack), cstack[Len(cstack)])

\* the branch a pending instruction takes, "" when none is pending
KindOf(p) == IF p.ready THEN InstrKind(RootOf(p.m, p.d), p.elem) ELSE ""
PendKind == KindOf(Pend)

\* history records: an instruction about to run, a nested opcode about to
\* resume, a step of the walker itself
Hist(op, p) ==
  [op |-> op, elem |-> p.elem, d |-> p.d, root |-> RootOf(p.m, p.d), ptrs |-> p.m.ptrs]
HistRec(op, rec) ==
  [op |-> op, elem |-> None, d |-> rec.doc, root |-> rec.root0, ptrs |-> rec.ptrs0]
HistDoc(op, d) ==
  [op |-> op, elem |-> None, d |-> d, root |-> docs[d].root, ptrs |-> ptrs]
\* a frame ends: with it the enter that started it returns, if one did
HistEnd(op, f) == IF f.by = "enter" THEN HistRec("enter", f) ELSE HistDoc(op, f.doc)
NoHist ==
  [op |-> "", elem |-> None, d |-> 0, root |-> None, ptrs |-> <<>>, res |-> "", out |-> "",
   actual |-> None]

\* the step's outcome becomes the new state
Apply(res, h) ==
  /\ Len(res.m.cs) <= MaxDepth
  /\ docs' = res.m.docs
  /\ ptrs' = res.m.ptrs
  /\ cstack' = res.m.cs
  /\ status' = IF res.st = "fatal" THEN "fatal" ELSE "running"
  /\ hist' = [op |-> h.op, elem |-> h.elem, d |-> h.d, root |-> h.root, ptrs |-> h.ptrs,
              res |-> IF res.st = "fatal" THEN "fatal"
                      ELSE IF Len(res.m.cs) > Len(cstack) THEN "entered" ELSE "done",
              out |-> IF "out" \in DOMAIN res THEN res.out ELSE "",
              actual |-> IF "actual" \in DOMAIN res THEN res.actual ELSE None]

\* a push whose copy of an array leaves the elements behind
ShallowCopy(x) == IF IsArr(x) THEN JArr(<<>>) ELSE x
PushCopyAndLogShallow(m, d, elem) ==
  PutRoot(Push(m, d, ShallowCopy(elem)), d,
          RecordPatch(RootOf(Push(m, d, ShallowCopy(elem)), d), "add", "/stack/-", elem))

\* jisp_stack_push_copy_and_log
PushCopyAndLog(m, d, elem) ==
  LET m1 == Push(m, d, elem)
  IN PutRoot(m1, d, RecordPatch(RootOf(m1, d), "add", "/stack/-", elem))

\* process_one_instruction: a string, number or array is pushed and logged
PushLiteral ==
  \E p \in {Pend} : KindOf(p) = "literal" /\ Apply(Ok(PushCopyAndLog(p.m, p.d, p.elem)), Hist("literal", p))
\* process_ep_object: an object without "." is pushed
PushObject ==
  \E p \in {Pend} : KindOf(p) = "object" /\ Apply(Ok(Push(p.m, p.d, p.elem)), Hist("object", p))
\* process_ep_object: a directive naming neither a root array nor an opcode is pushed
PushUnknown ==
  \E p \in {Pend} : KindOf(p) = "unknown" /\ Apply(Ok(Push(p.m, p.d, p.elem)), Hist("unknown", p))
\* process_one_instruction / process_ep_object: null, bool, or "." of another type
BadInstruction ==
  \E p \in {Pend} : KindOf(p) = "bad" /\ Apply(Fatal(p.m), Hist("bad", p))
\* process_ep_object: "." holds an array, walked in place
NestedDot ==
  \E p \in {Pend} :
    /\ KindOf(p) = "nested"
    /\ Apply(StartWalk(p.m, p.d, p.att, Append(p.pos, ObjIdx(p.elem, ".")),
                       ObjGet(p.elem, "."), p.path \o "/" \o DecStr(p.idx) \o "/."),
             Hist("nested", p))
\* process_ep_object: "." names an array of the root, walked as a macro
Macro ==
  \E p \in {Pend} :
    /\ KindOf(p) = "macro"
    /\ Apply(StartWalk(p.m, p.d, TRUE, <<ObjIdx(RootOf(p.m, p.d), ObjGet(p.elem, ".").v)>>,
                       None, "/" \o ObjGet(p.elem, ".").v),
             Hist("macro", p))

Do_pop_and_store ==
  \E p \in {Pend} : KindOf(p) = "pop_and_store" /\ Apply(Op_pop_and_store(p.m, p.d), Hist("pop_and_store", p))
Do_duplicate_top ==
  \E p \in {Pend} : KindOf(p) = "duplicate_top" /\ Apply(Op_duplicate_top(p.m, p.d), Hist("duplicate_top", p))
Do_add_two_top ==
  \E p \in {Pend} : KindOf(p) = "add_two_top" /\ Apply(Op_add_two_top(p.m, p.d), Hist("add_two_top", p))
Do_print_json ==
  \E p \in {Pend} : KindOf(p) = "print_json" /\ Apply(Op_print_json(p.m, p.d), Hist("print_json", p))
Do_undo ==
  \E p \in {Pend} : KindOf(p) = "undo" /\ Apply(Op_undo(p.m, p.d), Hist("undo", p))
Do_map_over ==
  \E p \in {Pend} : KindOf(p) = "map_over" /\ Apply(Op_map_over(p.m, p.d), Hist("map_over", p))
Do_get ==
  \E p \in {Pend} : KindOf(p) = "get" /\ Apply(Op_get(p.m, p.d), Hist("get", p))
Do_set ==
  \E p \in {Pend} : KindOf(p) = "set" /\ Apply(Op_set(p.m, p.d), Hist("set", p))
Do_append ==
  \E p \in {Pend} : KindOf(p) = "append" /\ Apply(Op_append(p.m, p.d), Hist("append", p))
Do_ptr_new ==
  \E p \in {Pend} : KindOf(p) = "ptr_new" /\ Apply(Op_ptr_new(p.m, p.d), Hist("ptr_new", p))
Do_ptr_release ==
  \E p \in {Pend} : KindOf(p) = "ptr_release" /\ Apply(Op_ptr_release(p.m, p.d), Hist("ptr_release", p))
Do_ptr_get ==
  \E p \in {Pend} : KindOf(p) = "ptr_get" /\ Apply(Op_ptr_get(p.m, p.d), Hist("ptr_get", p))
Do_ptr_set ==
  \E p \in {Pend} : KindOf(p) = "ptr_set" /\ Apply(Op_ptr_set(p.m, p.d), Hist("ptr_set", p))
Do_enter ==
  \E p \in {Pend} : KindOf(p) = "enter" /\ Apply(Op_enter(p.m, p.d), Hist("enter", p))
Do_exit ==
  \E p \in {Pend} : KindOf(p) = "exit" /\ Apply(Op_exit(p.m, p.d), Hist("exit", p))
Do_test ==
  \E p \in {Pend} : KindOf(p) = "test" /\ Apply(Op_test(p.m, p.d), Hist("test", p))
Do_print_error ==
  \E p \in {Pend} : KindOf(p) = "print_error" /\ Apply(Op_print_error(p.m, p.d), Hist("print_error", p))
Do_load ==
  \E p \in {Pend} : KindOf(p) = "load" /\ \E file \in LoadOutcomes : Apply(Op_load(p.m, p.d, file), Hist("load", p))
Do_store ==
  \E p \in {Pend} : KindOf(p) = "store" /\ \E written \in BOOLEAN : Apply(Op_store(p.m, p.d, written), Hist("store", p))
Do_step ==
  \E p \in {Pend} : KindOf(p) = "step" /\ Apply(Op_step(p.m, p.d), Hist("step", p))

\* process_ep_array: the exit flag is set when the next element is fetched
Break == \E p \in {Pend} : p.hit /\ Apply(Ok(EndWalk(p.m)), HistEnd("break", Last(cstack)))
\* process_ep_array: the iterator is exhausted
EndFrame ==
  /\ status = "running" /\ cstack # <<>>
  /\ Last(cstack).kind = "walk" /\ ~HasNext(Machine, Last(cstack))
  /\ Apply(Ok(EndWalk(Machine)), HistEnd("return", Last(cstack)))
\* map_over_iterate resumes after the function returned
MapReturn ==
  /\ status = "running" /\ cstack # <<>> /\ Last(cstack).kind = "map"
  /\ \E c \in {MapCollect(Machine)} :
       Apply(IF c.st = "fatal" THEN c ELSE MapIterate(c.m), HistRec("map_over", Last(cstack)))
\* op_test resumes after the sandbox run returned
TestReturn ==
  /\ status = "running" /\ cstack # <<>> /\ Last(cstack).kind = "test"
  /\ Apply(TestFinish(Machine), HistRec("test", Last(cstack)))
\* step_jisp_op resumes after the instruction returned
StepReturn ==
  /\ status = "running" /\ cstack # <<>>
  /\ Last(cstack).kind = "step" /\ Last(cstack).phase = "ret"
  /\ Apply(StepFinish(Machine), HistRec("step", Last(cstack)))

\* jisp_process_whole_file: retain the input document and walk its entrypoint
Start ==
  /\ status = "loaded"
  /\ Apply(ProcessEntrypoint(DocRetain(Machine, 1), 1), HistDoc("start", 1))

RECURSIVE PtrStackFreeAll(_)
\* ptr_stack_free_all
PtrStackFreeAll(m) ==
  IF Len(m.ptrs) = 0 THEN m
  ELSE PtrStackFreeAll(DocRelease([m EXCEPT !.ptrs = Front(@)], PtrTop(m).doc))

\* process_entrypoint returned: jisp_process_whole_file releases the document
\* and main frees the pointer stack
Finish ==
  /\ status = "running" /\ cstack = <<>>
  /\ \E m \in {PtrStackFreeAll(DocRelease(Machine, 1))} :
       docs' = m.docs /\ ptrs' = m.ptrs /\ cstack' = m.cs
  /\ status' = "done"
  /\ hist' = [NoHist EXCEPT !.op = "finish", !.d = 1, !.res = "done"]

\* the documents the next step of the run reads or writes
DocsInUse ==
  IF cstack = <<>> THEN {1} \cup {ptrs[i].doc : i \in DOMAIN ptrs}
  ELSE LET top == Last(cstack)
       IN {top.doc} \cup (IF top.kind \in {"test", "step"} THEN {top.sub} ELSE {})
          \cup (IF PendKind \in {"ptr_release", "ptr_get", "ptr_set"} /\ Len(ptrs) > 0
                THEN {ptrs[Len(ptrs)].doc} ELSE {})
\* using a document after yyjson_mut_doc_free is undefined: the run may go on
\* over the stale memory (the other actions) or die here
Crash ==
  /\ status = "running"
  /\ \E d \in DocsInUse : docs[d].freed
  /\ status' = "crash"
  /\ UNCHANGED <<docs, ptrs, cstack, hist>>

(***************************************************************************)
(* Input documents.                                                        *)
(***************************************************************************)
Dir(name) == JObj(<<KV(".", JStr(name))>>)

\* an input document: the reserved members, a heap member k, a macro m
Doc(rev, stack, ep) ==
  JObj(<<KV("is_reversible", JBool(rev)), KV("stack", JArr(stack)), KV("k", JInt(0)),
         KV("m", JArr(<<Dir("exit")>>)), KV("entrypoint", JArr(ep))>>)

\* a program operand for test, step and undo: it has one logged push behind it
SubProg ==
  JObj(<<KV("is_reversible", JBool(TRUE)), KV("stack", JArr(<<JInt(3)>>)),
         KV("residual", JArr(<<Patch("add", "/stack/-", JInt(3))>>)),
         KV("entrypoint", JArr(<<JStr("/stack"), Dir("ptr_new")>>))>>)
\* an expectation the result of SubProg matches
Expect == JObj(<<KV("stack", JArr(<<JInt(3)>>))>>)

\* the instructions generated entrypoints are made of
Alphabet ==
  {JInt(1), JStr("k"), JStr("/k"), JStr("/stack"), JStr("/stack/0"), JStr("/call_stack"),
   JArr(<<>>), JArr(<<JInt(1), Dir("add_two_top")>>), Expect, Dir("nop"),
   JObj(<<KV(".", JArr(<<Dir("exit"), JInt(1)>>))>>), Dir("m")}
  \cup {Dir(n) : n \in {"pop_and_store", "duplicate_top", "add_two_top", "undo", "map_over",
                        "get", "set", "append", "ptr_new", "ptr_release", "ptr_get",
                        "ptr_set", "enter", "exit", "test", "step"}}

\* the operand stacks generated programs start from
Seeds == {<<JInt(1), JInt(2)>>, <<JArr(<<JInt(1), JInt(2)>>)>>, <<SubProg>>}

Seqs(S, n) == UNION {[1..k -> S] : k \in 0..n}

Generated == {Doc(TRUE, st, ep) : st \in Seeds, ep \in Seqs(Alphabet, MaxProgLen)}

\* the example program of the manual's section 7
PtrExample ==
  JObj(<<KV("stack", JArr(<<>>)),
         KV("entrypoint", JArr(<<JStr("/stack/0"), Dir("ptr_new"), JInt(100), Dir("ptr_set"),
                                 Dir("ptr_release"), Dir("print_json")>>))>>)

\* a reversible program of pushes, duplicate_top, add_two_top and get
UndoRun ==
  Doc(TRUE, <<JInt(1), JInt(2)>>,
      <<JInt(5), Dir("duplicate_top"), Dir("add_two_top"), JStr("/k"), Dir("get"),
        JArr(<<JInt(4)>>)>>)

\* programs that exercise what the generated ones do not reach
Scenarios ==
  { \* the manual's example
    Doc(FALSE, <<>>, <<JInt(10), JInt(20), Dir("add_two_top"), JStr("k"), Dir("pop_and_store"),
                       Dir("print_json")>>),
    \* a root array that carries the name of an opcode
    JObj(<<KV("stack", JArr(<<>>)), KV("duplicate_top", JArr(<<JInt(7)>>)),
           KV("entrypoint", JArr(<<JInt(1), Dir("duplicate_top")>>))>>),
    \* null is no instruction
    Doc(TRUE, <<>>, <<JInt(1), JNull>>),
    \* file I/O
    Doc(TRUE, <<JInt(1)>>, <<JStr("f.json"), Dir("store"), JStr("f.json"), Dir("load")>>),
    Doc(TRUE, <<JInt(1)>>, <<Dir("print_error")>>),
    \* a program that overwrites its own reference count
    Doc(FALSE, <<JInt(0)>>, <<JStr("/ref"), Dir("set"), JStr("/k"), Dir("ptr_new"),
                              Dir("ptr_release"), JInt(1)>>),
    \* handles: create, read, write, release
    Doc(TRUE, <<JInt(5)>>, <<JStr("/k"), Dir("ptr_new"), Dir("ptr_set"), Dir("ptr_get"),
                             Dir("ptr_release")>>),
    \* a parent handle and a sandbox that releases it
    Doc(TRUE, <<>>, <<JStr("/k"), Dir("ptr_new"),
                      JObj(<<KV("stack", JArr(<<>>)),
                             KV("entrypoint", JArr(<<Dir("ptr_release")>>))>>),
                      Expect, Dir("test")>>),
    \* a mapped function that leaves two values
    Doc(TRUE, <<JArr(<<JInt(1)>>)>>, <<JArr(<<JInt(1)>>), Dir("map_over")>>),
    \* the root overwritten by a scalar
    Doc(TRUE, <<JInt(1)>>, <<JStr("/"), Dir("set"), JInt(1)>>),
    \* an append to an array that is an element of the stack
    Doc(TRUE, <<JArr(<<JInt(1), JInt(2)>>)>>, <<JInt(1), JStr("/stack/0"), Dir("append")>>),
    \* the stack overwritten through a handle
    Doc(TRUE, <<JInt(1)>>, <<JStr("/stack"), Dir("ptr_new"), JInt(1), Dir("ptr_set"), JInt(1)>>),
    \* a test whose expectation names part of an object inside an array
    Doc(TRUE, <<JObj(<<KV("stack", JArr(<<JObj(<<KV("a", JInt(1)), KV("b", JInt(2))>>)>>))>>),
                JObj(<<KV("stack", JArr(<<JObj(<<KV("a", JInt(1))>>)>>))>>)>>,
        <<Dir("test")>>),
    \* a flag that is not a boolean, and a store under the key of the log
    JObj(<<KV("is_reversible", JInt(1)), KV("stack", JArr(<<>>)),
           KV("entrypoint", JArr(<<JInt(1), JInt(2), Dir("add_two_top"), JStr("residual"),
                                   Dir("pop_and_store")>>))>>),
    \* the log overwritten by a scalar
    Doc(TRUE, <<>>, <<JInt(1), JStr("/residual"), Dir("set")>>),
    \* a document that is a number, and one tested as a program
    JInt(5),
    Doc(TRUE, <<JInt(5), JInt(5)>>, <<Dir("test")>>),
    \* members whose keys need escaping, and a member whose key is empty
    Doc(TRUE, <<>>, <<JInt(7), JStr("a/b"), Dir("pop_and_store"), JStr("/a~1b"), Dir("get"),
                      JInt(8), JStr("a~b"), Dir("pop_and_store"), JStr("/a~0b"), Dir("get"),
                      JInt(9), JStr(""), Dir("pop_and_store"), JStr("/"), Dir("get")>>),
    \* sandboxes that abort: in the run, before the run, in a single step
    Doc(TRUE, <<JObj(<<KV("stack", JArr(<<>>)), KV("entrypoint", JArr(<<Dir("add_two_top")>>))>>)>>,
        <<Expect, Dir("test"), JInt(1)>>),
    Doc(TRUE, <<JObj(<<KV("stack", JArr(<<>>)), KV("entrypoint", JInt(5))>>)>>,
        <<Expect, Dir("test"), JInt(1)>>),
    Doc(TRUE, <<JObj(<<KV("stack", JArr(<<>>)), KV("entrypoint", JArr(<<Dir("add_two_top")>>))>>)>>,
        <<Dir("step"), JInt(1)>>),
    \* the handle example of the manual
    PtrExample,
    \* the reference count written by the program: to zero while a handle is
    \* out, and to a negative number before a handle is taken
    Doc(FALSE, <<JInt(0)>>, <<JStr("/k"), Dir("ptr_new"), JStr("/ref"), Dir("set"),
                              Dir("ptr_release"), JInt(1)>>),
    Doc(FALSE, <<JInt(-3)>>, <<JStr("/ref"), Dir("set"), JStr("/k"), Dir("ptr_new"), JInt(1)>>),
    \* a run of pushes, duplicate_top, add_two_top and get, to be undone
    UndoRun,
    \* opcodes that follow the loss of the stack
    Doc(TRUE, <<JInt(1)>>, <<JStr("/stack"), Dir("ptr_new"), JInt(1), Dir("ptr_set"),
                             Dir("ptr_release"), Dir("print_json"), Dir("exit")>>),
    \* one handle more than the pointer stack holds
    Doc(FALSE, <<JArr([i \in 1..(MAX_PTR_STACK + 1) |-> JInt(0)])>>,
        <<JArr(<<JStr("/k"), Dir("ptr_new")>>), Dir("map_over")>>),
    \* an input document that carries a ref member
    JObj(<<KV("ref", JInt(5)), KV("stack", JArr(<<>>)),
           KV("entrypoint", JArr(<<JStr("/stack"), Dir("ptr_new"), Dir("ptr_release")>>))>>)
  }

\* paths that select nothing: a missing key, an index past the end, a
\* segment below a scalar, an escape that is neither ~0 nor ~1
UnresolvedPaths == {"/nope", "/stack/9", "/k/x", "/a~2b"}

\* a handle requested for each of them; the document has a member a~2b
Unresolved ==
  {JObj(<<KV("stack", JArr(<<JInt(1)>>)), KV("k", JInt(0)), KV("a~2b", JInt(3)),
          KV("entrypoint", JArr(<<JStr(P), Dir("ptr_new"), JInt(1)>>))>>) : P \in UnresolvedPaths}

\* instruction arrays to be run as a macro, as a nested array, by enter with
\* a path, by enter with a literal, and inline
WayBodies ==
  {<<JInt(1), Dir("add_two_top")>>, <<JStr("k"), Dir("pop_and_store")>>,
   <<Dir("duplicate_top"), JStr("/k"), Dir("get")>>, <<JInt(3), JStr("/k"), Dir("set")>>,
   <<Dir("exit"), JInt(1)>>, <<JObj(<<KV(".", JArr(<<JInt(1)>>))>>)>>,
   <<JStr("/call_stack"), Dir("get")>>, <<JStr("/residual"), Dir("get")>>}

\* a program that runs `how` and then pushes 7; root a holds the array A
WayProg(A, how) ==
  JObj(<<KV("is_reversible", JBool(TRUE)), KV("stack", JArr(<<JInt(1), JInt(2)>>)),
         KV("k", JInt(0)), KV("a", JArr(A)), KV("entrypoint", JArr(how \o <<JInt(7)>>))>>)

\* the five programs, each an operand of a test that accepts any result; the
\* inline one is on top and runs first
WaysOf(A) ==
  <<WayProg(A, <<Dir("a")>>), JObj(<<>>),
    WayProg(A, <<JObj(<<KV(".", JArr(A))>>)>>), JObj(<<>>),
    WayProg(A, <<JStr("/a"), Dir("enter")>>), JObj(<<>>),
    WayProg(A, <<JArr(A), Dir("enter")>>), JObj(<<>>),
    WayProg(A, A), JObj(<<>>)>>

Ways ==
  {JObj(<<KV("stack", JArr(WaysOf(A))), KV("a", JArr(A)),
          KV("entrypoint", JArr([i \in 1..5 |-> Dir("test")]))>>) : A \in WayBodies}

Init ==
  /\ \E root \in Generated \cup Scenarios \cup Unresolved \cup Ways :
       docs = <<[root |-> root, freed |-> FALSE, ostack |-> None]>>
  /\ ptrs = <<>>
  /\ cstack = <<>>
  /\ status = "loaded"
  /\ hist = NoHist

Next ==
  \/ Start
  \/ PushLiteral \/ PushObject \/ PushUnknown \/ BadInstruction \/ NestedDot \/ Macro
  \/ Do_pop_and_store \/ Do_duplicate_top \/ Do_add_two_top \/ Do_print_json \/ Do_undo
  \/ Do_map_over \/ Do_get \/ Do_set \/ Do_append
  \/ Do_ptr_new \/ Do_ptr_release \/ Do_ptr_get \/ Do_ptr_set
  \/ Do_enter \/ Do_exit \/ Do_test \/ Do_print_error \/ Do_load \/ Do_store \/ Do_step
  \/ Break \/ EndFrame \/ MapReturn \/ TestReturn \/ StepReturn
  \/ Finish \/ Crash

Spec == Init /\ [][Next]_vars

(***************************************************************************)
(* Properties.  They read the history variable: hist.root is the root of   *)
(* document hist.d when the last instruction was invoked, NowRoot is that  *)
(* root now.                                                               *)
(***************************************************************************)
NowRoot == docs[hist.d].root
\* the operands the last instruction found on the stack, topmost first
Operand(i) == Stack(hist.root).v[Len(Stack(hist.root).v) + 1 - i]

\* C1: a frame breaks on the exit flag only when the instruction it executed
\* last was exit itself: exit, also as the last instruction of a frame F,
\* unwinds F and lets the frame that invoked F go on with its next instruction
C1_ExitUnwindsOneFrame ==
  Pend.hit => hist.op = "exit" /\ hist.d = Pend.d /\ hist.res = "done"

\* the members of a root other than stack and residual
Heap(root) == ObjRemoveKey(ObjRemoveKey(root, "stack"), "residual")

\* C2: when test, step or undo has returned, the pointer stack is the one the
\* opcode found and the document differs from what it was only in stack and
\* residual
C2_SandboxIsolated ==
  hist.op \in {"test", "step", "undo"} /\ hist.res = "done"
    => ptrs = hist.ptrs /\ Heap(NowRoot) = Heap(hist.root)

\* C3: a directive with a string name invokes the opcode of that name if
\* there is one, whatever the root holds under the name; otherwise it walks
\* root[name] when that is an array; otherwise the directive is pushed
C3_OpcodeBeforeMacro ==
  IsObj(hist.elem) /\ IsStr(ObjGet(hist.elem, "."))
    => IF ObjGet(hist.elem, ".").v \in OpNames THEN hist.op = ObjGet(hist.elem, ".").v
       ELSE IF IsArr(ObjGet(hist.root, ObjGet(hist.elem, ".").v)) THEN hist.op = "macro"
       ELSE hist.op = "unknown"

\* the opcodes that log through a group
GroupOps == {"add_two_top", "map_over", "get", "set", "append"}
\* the last instruction was a group-producing opcode that succeeded on a
\* reversible document
GroupOpDone == hist.op \in GroupOps /\ hist.res = "done" /\ IsReversible(hist.root)
\* one undo applied to the document as it is now restores the stack
UndoRestoresStack ==
  /\ PerformUndo(NowRoot).st = "ok"
  /\ Stack(PerformUndo(NowRoot).root) = Stack(hist.root)
\* a pointer that names stack or a node inside it
InStack(path) == path = "/stack" \/ (Len(path) >= 7 /\ SubSeq(path, 1, 7) = "/stack/")

C5_StoreThenLookup ==
  hist.op = "pop_and_store" /\ hist.res = "done"
    => ObjGet(NowRoot, Operand(1).v) = Operand(2)

\* pc read the way step_jisp_op reads it: the first member named pc, 0 when it
\* is missing or no integer
PcOf(prog) == IF IsInt(ObjGet(prog, "pc")) THEN ObjGet(prog, "pc").v ELSE 0

\* C6: when step has executed instruction p of the program on top of the
\* stack, the program it pushes reads pc = p + 1
C6_StepAdvancesPc ==
  /\ hist.op = "step" /\ hist.res = "done"
  /\ IsArr(ObjGet(Operand(1), "entrypoint"))
  /\ PcOf(Operand(1)) >= 0 /\ PcOf(Operand(1)) < Len(ObjGet(Operand(1), "entrypoint").v)
  => PcOf(StackTop(NowRoot)) = PcOf(Operand(1)) + 1

\* the walker invocations active on document d
ActiveWalks(d) == {i \in 1..Len(cstack) : cstack[i].kind = "walk" /\ cstack[i].doc = d}

\* C7: while the run goes on and when it has returned, call_stack of every
\* document (its root an object) is as long as the number of walker
\* invocations active on it
C7_CallStackDepth ==
  status \in {"running", "done"}
    => \A d \in 1..Len(docs) :
         IsObj(docs[d].root)
           => ArrSize(CallStack(docs[d].root)) = Cardinality(ActiveWalks(d))

\* call_stack of every document is as long as the number of walker
\* invocations active on it
CallStackBalanced ==
  status \in {"running", "done"}
    => \A d \in 1..Len(docs) :
         ArrSize(CallStack(docs[d].root)) = Cardinality(ActiveWalks(d))
\* a node that is the root, call_stack or inside call_stack
InCallStack(root, pos) == pos = <<>> \/ (IsObj(root) /\ root.v[pos[1]].k = "call_stack")
\* the path operand of the pending set or append resolves to such a node
PathWritesCallStack(root) ==
  /\ RequireStack(root, 1) /\ IsStr(StackTop(root))
  /\ ResolvePath(root, StackTop(root).v).ok
  /\ InCallStack(root, ResolvePath(root, StackTop(root).v).pos)
\* the handle the pending ptr_set writes through names such a node
HandleWritesCallStack(m) ==
  /\ Len(m.ptrs) > 0 /\ PtrTop(m).att
  /\ InCallStack(RootOf(m, PtrTop(m).doc), PtrTop(m).pos)
\* the instruction about to run writes call_stack or replaces the root
WritesCallStack ==
  \E p \in {Pend} :
    \/ KindOf(p) \in {"set", "append"} /\ PathWritesCallStack(RootOf(p.m, p.d))
    \/ KindOf(p) = "ptr_set" /\ HandleWritesCallStack(p.m)

\* C7 amended: every step of the run other than a set, append or ptr_set
\* whose target is the root, call_stack or a node inside call_stack keeps
\* call_stack of every document as long as the number of walker invocations
\* active on it, through frame entry, normal completion and exit break
C7_WalkerKeepsDepth ==
  [][CallStackBalanced /\ ~WritesCallStack => CallStackBalanced']_vars

\* a frame has broken on exit and the frames below it are still counted
C7_Witness ==
  /\ hist.op = "break" /\ status = "running" /\ Len(cstack) >= 1
  /\ CallStackBalanced

\* the opcodes of the documented table and their deltas
DeltaOps ==
  {"duplicate_top", "pop_and_store", "add_two_top", "get", "set", "append", "map_over",
   "ptr_new", "ptr_release", "ptr_get", "ptr_set", "exit", "print_error", "undo", "step",
   "test"}
Delta(op, out) ==
  CASE op \in {"duplicate_top", "ptr_get"} -> 1
    [] op \in {"get", "ptr_release", "exit", "undo", "step"} -> 0
    [] op \in {"add_two_top", "map_over", "ptr_new", "ptr_set", "print_error"} -> -1
    [] op \in {"pop_and_store", "set", "append"} -> -2
    [] op = "test" -> IF out = "match" THEN -2 ELSE -1
\* the last instruction was an opcode of the table and it succeeded
DeltaOpDone == hist.op \in DeltaOps /\ hist.res = "done"
\* the last instruction was an append whose path names the array stack itself
AppendToStack ==
  /\ hist.op = "append"
  /\ ResolvePath(hist.root, Operand(1).v).ok
  /\ ResolvePath(hist.root, Operand(1).v).pos = <<StackPos(hist.root)>>

\* C8 as stated: every opcode that succeeds changes the length of stack by its
\* documented delta, for every path operand
C8_StackDelta ==
  DeltaOpDone => StackLen(NowRoot) = StackLen(hist.root) + Delta(hist.op, hist.out)

\* C8 amended: the same for every opcode that leaves stack an array, except
\* that an append to stack itself pops two operands and adds one element
C8_StackDeltaUnlessStackTarget ==
  DeltaOpDone /\ HasStack(NowRoot)
    => StackLen(NowRoot) = StackLen(hist.root)
                           + (IF AppendToStack THEN -1 ELSE Delta(hist.op, hist.out))

\* an append to stack itself has succeeded
C8_Witness == DeltaOpDone /\ AppendToStack /\ HasStack(NowRoot)

\* C9: when an opcode invoked on a reversible document ends in a fatal error,
\* the residual log is the one the opcode found
C9_AbortKeepsResidual ==
  hist.op \in OpNames /\ hist.res = "fatal" /\ IsReversible(hist.root)
    => Residual(NowRoot) = Residual(hist.root)

\* the entries of the residual log, none when the member is missing
ResidualEntries(root) == IF IsArr(Residual(root)) THEN Residual(root).v ELSE <<>>

\* C10: on a reversible document every push of an instruction by the walker
\* -- a string, number or array, an object without ".", a directive that names
\* neither an opcode nor a root array -- appends one add patch for "/stack/-"
\* carrying the pushed value
C10_LiteralPushLogged ==
  hist.op \in {"literal", "object", "unknown"} /\ hist.res = "done" /\ IsReversible(hist.root)
    => ResidualEntries(NowRoot)
         = Append(ResidualEntries(hist.root), Patch("add", "/stack/-", hist.elem))

RECURSIVE Flatten(_)
\* the patches of a sequence of residual entries, every group flattened in place
Flatten(es) ==
  IF es = <<>> THEN <<>>
  ELSE (IF IsArr(Head(es)) THEN Head(es).v ELSE <<Head(es)>>) \o Flatten(Tail(es))
\* the residual log still starts with the entries the last instruction found
LogExtended ==
  /\ Len(ResidualEntries(NowRoot)) >= Len(ResidualEntries(hist.root))
  /\ SubSeq(ResidualEntries(NowRoot), 1, Len(ResidualEntries(hist.root)))
       = ResidualEntries(hist.root)
\* the patches the last instruction appended, those of the frames it ran included
NewPatches ==
  Flatten(SubSeq(ResidualEntries(NowRoot), Len(ResidualEntries(hist.root)) + 1,
                 Len(ResidualEntries(NowRoot))))
IsStackAdd(p) == ObjGet(p, "op") = JStr("add") /\ ObjGet(p, "path") = JStr("/stack/-")
IsStackRemove(p) ==
  /\ ObjGet(p, "op") = JStr("remove") /\ IsStr(ObjGet(p, "path"))
  /\ Len(ObjGet(p, "path").v) > 7 /\ SubSeq(ObjGet(p, "path").v, 1, 7) = "/stack/"
  /\ AllDigits(SubSeq(ObjGet(p, "path").v, 8, Len(ObjGet(p, "path").v)))
\* add patches at "/stack/-" minus remove patches at "/stack/<i>"
LoggedDelta(ps) ==
  Cardinality({i \in 1..Len(ps) : IsStackAdd(ps[i])})
    - Cardinality({i \in 1..Len(ps) : IsStackRemove(ps[i])})

\* C11: when an opcode invoked on a reversible document has returned, the
\* length of stack has changed by the number of add patches at "/stack/-"
\* minus the number of remove patches at "/stack/<i>" appended to residual
\* since its invocation, the patches of the frames it ran included (stack and
\* residual are still the arrays they were)
C11_StackEditsLogged ==
  /\ hist.op \in OpNames /\ hist.res = "done"
  /\ IsReversible(hist.root) /\ LogExtended /\ HasStack(NowRoot)
  => StackLen(NowRoot) - StackLen(hist.root) = LoggedDelta(NewPatches)

\* C12: when map_over has returned on a reversible document, the patches
\* appended since its invocation, groups flattened, are in the order of the
\* edits: first the removals of its two operands, then what the walks of the
\* function logged, last the push of the result
C12_MapOverLogOrder ==
  /\ hist.op = "map_over" /\ hist.res = "done"
  /\ IsReversible(hist.root) /\ LogExtended /\ HasStack(NowRoot)
  => /\ Len(NewPatches) >= 3
     /\ NewPatches[1] = Patch("remove", TopPath(hist.root), Operand(1))
     /\ NewPatches[2]
          = Patch("remove", "/stack/" \o DecStr(StackLen(hist.root) - 2), Operand(2))
     /\ NewPatches[Len(NewPatches)] = Patch("add", "/stack/-", StackTop(NowRoot))

\* the handles on the pointer stack that refer to document d
HandlesOn(d) == {i \in DOMAIN ptrs : ptrs[i].doc = d}

\* C13: while the walker runs on a document, its root ref is 1 plus the
\* number of handles on the pointer stack that refer to it
C13_RefCountsHandles ==
  status = "running"
    => \A d \in 1..Len(docs) :
         ActiveWalks(d) # {} /\ ~docs[d].freed /\ IsObj(docs[d].root)
           => ObjGet(docs[d].root, "ref") = JInt(1 + Cardinality(HandlesOn(d)))

\* the activations that still work on document d, as their own or as sandbox
UsersOf(d) ==
  {i \in 1..Len(cstack) :
     \/ cstack[i].doc = d
     \/ cstack[i].kind \in {"test", "step"} /\ cstack[i].sub = d}

\* C14: a sandbox document whose test, step or undo has returned (no
\* activation works on it any more) and that no handle refers to has been freed
C14_SandboxFreed ==
  status = "running"
    => \A d \in 2..Len(docs) : UsersOf(d) = {} /\ HandlesOn(d) = {} => docs[d].freed

\* C15: when the run has completed without a fatal error, the document has
\* no _interrupt_exit member: every flag exit set was consumed by a frame
C15_ExitFlagConsumed ==
  status = "done" => IsNone(ObjGet(docs[1].root, "_interrupt_exit"))

\* the six JSON types
JsonType(x) == IF IsNum(x) THEN "number" ELSE x.t
RECURSIVE DeepEqual(_, _)
\* structural equality: a value equals itself, and objects are equal when each
\* has every member of the other
DeepEqual(x, y) ==
  IF x = y THEN TRUE
  ELSE IF x.t # y.t THEN FALSE
  ELSE IF IsArr(x)
       THEN Len(x.v) = Len(y.v) /\ \A i \in 1..Len(x.v) : DeepEqual(x.v[i], y.v[i])
  ELSE IF IsObj(x)
       THEN /\ \A i \in 1..Len(x.v) :
                 ObjIdx(y, x.v[i].k) # 0 /\ DeepEqual(x.v[i].v, ObjGet(y, x.v[i].k))
            /\ \A i \in 1..Len(y.v) :
                 ObjIdx(x, y.v[i].k) # 0 /\ DeepEqual(y.v[i].v, ObjGet(x, y.v[i].k))
  ELSE x = y
RECURSIVE SubsetMatch(_, _)
\* subset match as documented: the types agree; an expected object matches when
\* each of its keys exists in the actual one and matches; anything else is
\* compared strictly
SubsetMatch(expected, actual) ==
  IF JsonType(expected) # JsonType(actual) THEN FALSE
  ELSE IF IsObj(expected)
       THEN \A i \in 1..Len(expected.v) :
              /\ ObjIdx(actual, expected.v[i].k) # 0
              /\ SubsetMatch(expected.v[i].v, ObjGet(actual, expected.v[i].k))
  ELSE DeepEqual(expected, actual)
\* the object test pushes on a mismatch
IsTestFailure(x, expected, actual) ==
  /\ IsObj(x) /\ Len(x.v) = 4
  /\ ObjGet(x, "error") = JBool(TRUE) /\ ObjGet(x, "kind") = JStr("test_failure")
  /\ IsStr(ObjGet(x, "message"))
  /\ IsObj(ObjGet(x, "details")) /\ Len(ObjGet(x, "details").v) = 2
  /\ DeepEqual(ObjGet(ObjGet(x, "details"), "expected"), expected)
  /\ DeepEqual(ObjGet(ObjGet(x, "details"), "actual"), actual)

\* C16: when test has returned, it has popped Expect and Prog; it has pushed
\* nothing if Expect subset-matches the final root of the sandbox, and
\* otherwise one test_failure object whose details are Expect and that root
C16_TestVerdict ==
  hist.op = "test" /\ hist.res = "done" /\ HasStack(NowRoot)
    => IF SubsetMatch(Operand(1), hist.actual)
       THEN StackLen(NowRoot) = StackLen(hist.root) - 2
       ELSE /\ StackLen(NowRoot) = StackLen(hist.root) - 1
            /\ IsTestFailure(StackTop(NowRoot), Operand(1), hist.actual)

\* a test has passed on an expectation that names part of the sandbox's root
C16_Witness ==
  /\ hist.op = "test" /\ hist.res = "done" /\ HasStack(NowRoot)
  /\ IsObj(Operand(1)) /\ Len(Operand(1).v) > 0
  /\ SubsetMatch(Operand(1), hist.actual) /\ ~DeepEqual(Operand(1), hist.actual)
  /\ StackLen(NowRoot) = StackLen(hist.root) - 2

\* the paths the laws below are tried on, in every state of a walk
LawPaths == {"/k", "/stack/0", "/", "/ref", "/residual", "/nope"}
\* the walker is between two instructions of document d
Walking(d) == status = "running" /\ cstack # <<>> /\ Last(cstack).kind = "walk"
                /\ Last(cstack).doc = d /\ ~docs[d].freed
\* r, then op when r did not abort
Then(r, d, op(_, _)) == IF r.st = "fatal" THEN r ELSE op(r.m, d)
\* the machine after push P
Pushed(d, P) == PushCopyAndLog(Machine, d, JStr(P))
\* ptr_new, ptr_get, ptr_release from m0
ViaHandle(m0, d) == Then(Then(Op_ptr_new(m0, d), d, Op_ptr_get), d, Op_ptr_release)
\* get from m0
ViaGet(m0, d) == Op_get(m0, d)
\* both sequences abort, or neither does and the first pushes what the second
\* pushes and leaves ref and the pointer stack as they were
SameAsGet(h, g, d) ==
  /\ h.st = g.st
  /\ h.st = "ok" => /\ HasStack(RootOf(h.m, d)) /\ HasStack(RootOf(g.m, d))
                    /\ DeepEqual(StackTop(RootOf(h.m, d)), StackTop(RootOf(g.m, d)))
                    /\ h.m.ptrs = ptrs /\ ~h.m.docs[d].freed
                    /\ ObjGet(RootOf(h.m, d), "ref") = ObjGet(docs[d].root, "ref")
\* the two sequences from m0 agree
LawAt(m0, d) == \E h \in {ViaHandle(m0, d)} : \E g \in {ViaGet(m0, d)} : SameAsGet(h, g, d)

\* C17 as stated: in every state of a walk and for every path P, push P,
\* ptr_new, ptr_get, ptr_release aborts exactly when push P, get aborts, pushes
\* a value deep-equal to the one get pushes and leaves ref and the pointer
\* stack as they were
C17_HandleReadsAsGet ==
  \A d \in 1..Len(docs) : Walking(d) /\ HasStack(docs[d].root)
    => \A P \in LawPaths : LawAt(Pushed(d, P), d)

\* the node P names is the root or lies in ref or residual
SeesBookkeeping(root, P) ==
  \E res \in {ResolvePath(root, P)} :
    res.ok /\ (res.pos = <<>> \/ root.v[res.pos[1]].k \in {"ref", "residual"})

\* the document's count is a positive number
Retained1(root) == IsNum(ObjGet(root, "ref")) /\ RefCount(root) >= 1

\* C17 amended: the same for every path that does not name the root or a node
\* in ref or residual, while ref is at least 1 and the pointer stack has room
C17_HandleReadsAsGetElsewhere ==
  \A d \in 1..Len(docs) :
    Walking(d) /\ HasStack(docs[d].root) /\ Retained1(docs[d].root)
               /\ Len(ptrs) < MAX_PTR_STACK
    => \A P \in LawPaths : \E m0 \in {Pushed(d, P)} :
         ~SeesBookkeeping(RootOf(m0, d), P) => LawAt(m0, d)

\* ptr_new is about to run on a path to a heap member, and the handle
\* sequence reads it as get does
C17_Witness ==
  /\ PendKind = "ptr_new" /\ Walking(Pend.d) /\ RequireStack(docs[Pend.d].root, 1)
  /\ StackTop(docs[Pend.d].root) = JStr("/k")
  /\ ViaHandle(Machine, Pend.d).st = "ok"
  /\ LawAt(Machine, Pend.d)

\* the paths and values the write law is tried on
WritePaths == {"/k", "/stack/0", "/ref"}
WriteValues == {JInt(99), JStr("v")}
\* push V from r, when r did not abort
ThenPush(r, d, V) == IF r.st = "fatal" THEN r ELSE Ok(PushCopyAndLog(r.m, d, V))
\* push P, ptr_new, push V, ptr_set, ptr_release
WriteViaHandle(d, P, V) ==
  Then(Then(ThenPush(Op_ptr_new(Pushed(d, P), d), d, V), d, Op_ptr_set), d, Op_ptr_release)
\* member i of root is in after as it was, the log at most longer
MemberKept(after, root, i) ==
  /\ after.v[i].k = root.v[i].k
  /\ IF root.v[i].k = "residual" /\ IsArr(root.v[i].v) /\ IsArr(after.v[i].v)
     THEN IsPrefix(root.v[i].v.v, after.v[i].v.v)
     ELSE after.v[i].v = root.v[i].v
\* after is root, but for patches appended to residual
SameButLog(after, root) ==
  /\ IsObj(after) /\ Len(after.v) >= Len(root.v)
  /\ \A i \in 1..Len(root.v) : MemberKept(after, root, i)
  /\ \A i \in (Len(root.v) + 1)..Len(after.v) : after.v[i].k = "residual"
\* the sequence ran, the node at pos holds V and nothing else differs from root
WroteOnly(w, d, root, pos, V) ==
  /\ w.st = "ok" /\ ~w.m.docs[d].freed /\ w.m.ptrs = ptrs
  /\ IsObj(RootOf(w.m, d))
  /\ AtPos(RootOf(w.m, d), pos) = V
  /\ SameButLog(SetPos(RootOf(w.m, d), pos, AtPos(root, pos)), root)
\* the law for the node P names in root, when that is a scalar
WriteLaw(d, root, P, V, res) ==
  res.ok /\ res.pos # <<>> /\ IsScalar(AtPos(root, res.pos))
    => WroteOnly(WriteViaHandle(d, P, V), d, root, res.pos, V)

\* C18 as stated: in every state of a walk, for every path P to a scalar and
\* every scalar V, push P, ptr_new, push V, ptr_set, ptr_release makes the
\* value at P equal to V and changes no other location of the document
C18_HandleWritesOneNode ==
  \A d \in 1..Len(docs) : Walking(d) /\ HasStack(docs[d].root)
    => \A P \in WritePaths : \A V \in WriteValues :
         WriteLaw(d, docs[d].root, P, V, ResolvePath(docs[d].root, P))

\* C18 amended: the same for every path other than the one to ref, while ref
\* is at least 1 and the pointer stack has room
C18_HandleWritesOneNodeButRef ==
  \A d \in 1..Len(docs) :
    Walking(d) /\ HasStack(docs[d].root) /\ Retained1(docs[d].root)
               /\ Len(ptrs) < MAX_PTR_STACK
    => \A P \in WritePaths \ {"/ref"} : \A V \in WriteValues :
         WriteLaw(d, docs[d].root, P, V, ResolvePath(docs[d].root, P))

\* ptr_set has just written a scalar through a handle that is attached to a
\* node of the document, and the node holds the value
C18_Witness ==
  /\ hist.op = "ptr_set" /\ hist.res = "done" /\ ptrs # <<>>
  /\ ptrs[Len(ptrs)].att /\ ptrs[Len(ptrs)].doc = hist.d
  /\ ptrs[Len(ptrs)].pos # <<>>
  /\ IsScalar(Operand(1))
  /\ AtPos(NowRoot, ptrs[Len(ptrs)].pos) = Operand(1)
  /\ AtPos(hist.root, ptrs[Len(ptrs)].pos) # Operand(1)

\* map_over_iterate has its function back and is about to check the stack
MapResumes == status = "running" /\ cstack # <<>> /\ Last(cstack).kind = "map"
\* the array map_over_iterate holds as stack, in document d
HeldNow(d) == IF IsNone(docs[d].ostack) THEN Stack(docs[d].root) ELSE docs[d].ostack
\* the next element was handed to the function: rec is one element further
\* with the value v collected, a copy of the element is on the stack and a
\* walk of the function has started
MapNextStarted(rec, v) ==
  /\ Len(cstack) >= 2
  /\ cstack[Len(cstack) - 1] = [rec EXCEPT !.i = rec.i + 1, !.result = Append(rec.result, v)]
  /\ Last(cstack).kind = "walk" /\ Last(cstack).val = rec.func /\ Last(cstack).idx = 0
  /\ IsArr(HeldNow(rec.doc)) /\ Len(HeldNow(rec.doc).v) = rec.orig + 1
  /\ DeepEqual(Last(HeldNow(rec.doc).v), rec.data[rec.i + 1])
\* map_over has returned: the collected values are on the stack as one array
MapReturned(rec, v) ==
  /\ Len(cstack) >= 1 /\ Last(cstack).kind # "map"
  /\ IsArr(HeldNow(rec.doc)) /\ Len(HeldNow(rec.doc).v) = rec.orig + 1
  /\ Last(HeldNow(rec.doc).v) = JArr(Append(rec.result, v))
  /\ Len(rec.result) + 1 = Len(rec.data)
\* one pass of the loop of map_over_iterate over the record rec, the function
\* having left the array held with top v
MapLoop(rec, held) ==
  IF ~IsArr(held) \/ Len(held.v) # rec.orig + 1 THEN status' = "fatal"
  ELSE status' = "running"
         => IF rec.i < Len(rec.data) THEN MapNextStarted(rec, Last(held.v))'
            ELSE MapReturned(rec, Last(held.v))'
\* the result of a finished map_over: as long as the data, one slot where the
\* two operands were, and the data itself when the function is empty
MapShape ==
  hist.op = "map_over" /\ hist.res = "done"
    => /\ HasStack(NowRoot) /\ StackLen(NowRoot) = StackLen(hist.root) - 1
       /\ IsArr(StackTop(NowRoot))
       /\ Len(StackTop(NowRoot).v) = Len(Operand(2).v)
       /\ Operand(1).v = <<>> => DeepEqual(StackTop(NowRoot), Operand(2))

\* C19: whenever the function of a map_over returns, the run aborts if the
\* stack is not one longer than before the element was pushed, and otherwise
\* the top of the stack is collected as the next result and the next element
\* is copied and handed to the function, or, after the last element, the
\* collected values are pushed as one array; that array is as long as the data
\* and deep-equal to it when the function is empty
C19_MapOverResult ==
  [][/\ MapResumes => \E rec \in {Last(cstack)} : \E held \in {HeldNow(rec.doc)} :
                         MapLoop(rec, held)
     /\ MapShape']_vars

\* a map_over over two elements with a function that is not empty has returned
C19_Witness ==
  /\ hist.op = "map_over" /\ hist.res = "done" /\ HasStack(NowRoot)
  /\ Len(Operand(2).v) >= 2 /\ Len(Operand(1).v) >= 1
  /\ IsArr(StackTop(NowRoot)) /\ Len(StackTop(NowRoot).v) = Len(Operand(2).v)
  /\ ~DeepEqual(StackTop(NowRoot), Operand(2))

\* the log of document d is as it was, or d was not reversible before or is
\* not reversible now
LogKept(d) ==
  ~IsReversible(docs[d].root) /\ ~IsReversible(docs'[d].root)
    => Residual(docs'[d].root) = Residual(docs[d].root)

\* C20 as stated: no step of the run changes residual of a document whose
\* is_reversible is not true; it stays absent or as it was
C20_LogUntouched == [][\A d \in 1..Len(docs) : LogKept(d)]_vars

\* a node that is the root, residual or inside residual
InResidual(root, pos) == pos = <<>> \/ (IsObj(root) /\ root.v[pos[1]].k = "residual")
\* the path operand of the pending set or append resolves to such a node
PathWritesResidual(root) ==
  /\ RequireStack(root, 1) /\ IsStr(StackTop(root))
  /\ ResolvePath(root, StackTop(root).v).ok
  /\ InResidual(root, ResolvePath(root, StackTop(root).v).pos)
\* the handle the pending ptr_set writes through names such a node
HandleWritesResidual(m) ==
  /\ Len(m.ptrs) > 0 /\ PtrTop(m).att
  /\ InResidual(RootOf(m, PtrTop(m).doc), PtrTop(m).pos)
\* the instruction about to run stores under the key residual, or writes the
\* root, residual or a node inside residual
WritesResidual ==
  \E p \in {Pend} :
    \/ KindOf(p) = "pop_and_store" /\ RequireStack(RootOf(p.m, p.d), 1)
         /\ StackTop(RootOf(p.m, p.d)) = JStr("residual")
    \/ KindOf(p) \in {"set", "append"} /\ PathWritesResidual(RootOf(p.m, p.d))
    \/ KindOf(p) = "ptr_set" /\ HandleWritesResidual(p.m)

\* C20 amended: the same for every step other than a pop_and_store under the
\* key residual and a set, append or ptr_set whose target is the root,
\* residual or a node inside residual
C20_LogUntouchedUnlessWritten ==
  [][~WritesResidual => \A d \in 1..Len(docs) : LogKept(d)]_vars

\* a grouped opcode has run on a document whose flag is a number, and the
\* document has no log
C20_Witness ==
  /\ hist.op = "add_two_top" /\ hist.res = "done"
  /\ ~IsNone(ObjGet(NowRoot, "is_reversible")) /\ ~IsReversible(NowRoot)
  /\ IsNone(Residual(NowRoot)) /\ IsNone(Residual(hist.root))

\* a patch object: op and path are strings
IsPatch(e) == IsObj(e) /\ IsStr(ObjGet(e, "op")) /\ IsStr(ObjGet(e, "path"))
\* one patch or a flat array of patches
IsLogEntry(e) == IsPatch(e) \/ (IsArr(e) /\ \A i \in 1..Len(e.v) : IsPatch(e.v[i]))
\* the entries the last step appended to the log of its document
NewEntries ==
  SubSeq(ResidualEntries(NowRoot), Len(ResidualEntries(hist.root)) + 1,
         Len(ResidualEntries(NowRoot)))

\* C21: every entry of residual of every document is one patch object with
\* string op and path or a flat array of such objects, and so is every entry
\* the last step appended, nested frames included
C21_LogEntriesFlat ==
  /\ \A d \in 1..Len(docs) : \A i \in 1..Len(ResidualEntries(docs[d].root)) :
       IsLogEntry(ResidualEntries(docs[d].root)[i])
  /\ hist.op # "" /\ LogExtended => \A i \in 1..Len(NewEntries) : IsLogEntry(NewEntries[i])

\* a map_over has returned whose function ran a grouped opcode: the log ends
\* with the group of the map_over, after a group logged inside it
C21_Witness ==
  /\ hist.op = "map_over" /\ hist.res = "done" /\ LogExtended
  /\ Len(NewEntries) >= 2
  /\ IsArr(NewEntries[Len(NewEntries)])
  /\ \E i \in 1..(Len(NewEntries) - 1) : IsArr(NewEntries[i])

\* the log of document d keeps the entries it had, in their places
LogGrows(d) == IsPrefix(ResidualEntries(docs[d].root), ResidualEntries(docs'[d].root))

OthersKept(after, root) ==
  /\ IsObj(after) /\ Len(after.v) >= Len(root.v)
  /\ \A i \in 1..Len(root.v) : root.v[i].k # "stack" => MemberKept(after, root, i)
\* the stack of after is the stack of root with x appended
StackGrewBy(after, root, x) == HasStack(after) /\ Stack(after).v = Append(Stack(root).v, x)
\* 99, the path of the top slot, set: an in-place change of the top of the stack
Poke(d) ==
  Op_set(PushCopyAndLog(PushCopyAndLog(Machine, d, JInt(99)), d, JStr(TopPath(docs[d].root))), d)
\* the change went to the top slot alone: the slots below, the instructions
\* and the patches logged before are as they were
PokedTopOnly(w, d) ==
  /\ w.st = "ok" /\ HasStack(RootOf(w.m, d))
  /\ Stack(RootOf(w.m, d)).v = [Stack(docs[d].root).v EXCEPT ![StackLen(docs[d].root)] = JInt(99)]
  /\ OthersKept(RootOf(w.m, d), docs[d].root)
\* the last step pushed x: the stack grew by a value equal to x, nothing else
\* changed, and the pushed value can be changed alone
PushedApart(x) ==
  /\ StackGrewBy(NowRoot, hist.root, x)
  /\ OthersKept(NowRoot, hist.root)
  /\ IsReversible(hist.root) /\ hist.op = "literal"
       => Len(NewEntries) = 1 /\ NewEntries[1] = Patch("add", "/stack/-", x)
  /\ Walking(hist.d) => PokedTopOnly(Poke(hist.d), hist.d)
\* the step ran on a document whose stack is where the walker holds it
PlainStack == IsObj(hist.root) /\ HasStack(hist.root) /\ IsNone(docs[hist.d].ostack)

C24_ScalarsPushed ==
  /\ ~IsNone(hist.elem) /\ (IsScalar(hist.elem) \/ IsArr(hist.elem)) /\ PlainStack
    => hist.res = "done" /\ StackGrewBy(NowRoot, hist.root, hist.elem)

\* C25: a document that is no object is left as it was given and runs no
\* instruction, as an input and as the program of a test: a test whose
\* program is such a value and whose expectation equals it pushes nothing
C25_NonObjectUntouched ==
  /\ hist.op = "start" /\ ~IsObj(hist.root) => NowRoot = hist.root /\ cstack = <<>>
  /\ hist.op = "test" /\ hist.res = "done" /\ PlainStack /\ ~IsObj(Operand(2))
       => /\ hist.actual = Operand(2)
          /\ DeepEqual(Operand(1), Operand(2)) => StackLen(NowRoot) = StackLen(hist.root) - 2

\* the opcodes that take operands from the stack, and how many each takes
Consuming ==
  {"pop_and_store", "duplicate_top", "add_two_top", "map_over", "get", "set", "append",
   "enter", "ptr_new", "ptr_set", "test", "print_error", "load", "store", "undo", "step"}
Consumes(op) ==
  IF op \in {"pop_and_store", "add_two_top", "map_over", "set", "append", "test", "store"}
  THEN 2 ELSE 1
\* the last instruction was such an opcode and found too few operands
Underflow ==
  /\ hist.op \in Consuming /\ ~IsNone(hist.elem) /\ IsObj(hist.root) /\ HasStack(hist.root)
  /\ StackLen(hist.root) < Consumes(hist.op)

Ran(ops) == hist.op \in ops /\ ~IsNone(hist.elem)

\* C27: the pointer stack holds between 0 and 64 handles; ptr_release,
\* ptr_get and ptr_set on an empty pointer stack abort and leave the document
\* as it was; a ptr_new on a full pointer stack aborts; ptr_get and ptr_set
\* keep the depth; when the run has ended no handle is left
C27_PtrStackBounded ==
  /\ Len(ptrs) \in 0..MAX_PTR_STACK
  /\ Ran({"ptr_release", "ptr_get", "ptr_set"}) /\ hist.ptrs = <<>>
       => hist.res = "fatal" /\ NowRoot = hist.root /\ ptrs = <<>>
  /\ Ran({"ptr_new"}) /\ Len(hist.ptrs) = MAX_PTR_STACK => hist.res = "fatal"
  /\ Ran({"ptr_get", "ptr_set"}) => Len(ptrs) = Len(hist.ptrs)
  /\ status = "done" => ptrs = <<>>

\* a ptr_new has found the pointer stack full
C27_Witness ==
  /\ Ran({"ptr_new"}) /\ Len(hist.ptrs) = MAX_PTR_STACK
  /\ hist.res = "fatal" /\ Len(ptrs) = MAX_PTR_STACK


\* C28: a set or ptr_set that succeeded has overwritten no container: the
\* root is still an object and each of stack, entrypoint and residual that was
\* an array or object still is one
C28_ContainersKept ==
  Ran({"set", "ptr_set"}) /\ hist.res = "done" /\ IsObj(hist.root)
    => /\ IsObj(NowRoot)
       /\ \A key \in {"stack", "entrypoint", "residual"} :
            IsScalar(ObjGet(NowRoot, key)) => IsScalar(ObjGet(hist.root, key))
                                               \/ IsNone(ObjGet(hist.root, key))

\* C29: an opcode of the registry invoked while root `stack` is missing or is
\* no array ends in a fatal error
C29_NoStackFatal ==
  Ran(OpNames) /\ ~HasStack(hist.root) => hist.res = "fatal"

\* get of the path pop_and_store records for key K, run from the present state
GetOfKey(d, K) == Op_get(Pushed(d, BuildPathForKey(K)), d)

\* the path recorded for K resolves to the member K, and get pushes its value
ReadsMember(g, d, K) ==
  /\ ResolvePath(docs[d].root, BuildPathForKey(K)).pos = <<ObjIdx(docs[d].root, K)>>
  /\ g.st = "ok" /\ HasStack(RootOf(g.m, d))
  /\ DeepEqual(StackTop(RootOf(g.m, d)), ObjGet(docs[d].root, K))

\* C30: after pop_and_store has stored under key K, the path it recorded,
\* "/" followed by K with '~' written ~0 and '/' written ~1, resolves through
\* get to root[K], for every K including the empty key
C30_PathRoundTrip ==
  Ran({"pop_and_store"}) /\ hist.res = "done" /\ Walking(hist.d) /\ IsObj(NowRoot)
    => \E K \in {Operand(1).v} : \E g \in {GetOfKey(hist.d, K)} : ReadsMember(g, hist.d, K)

\* the last instruction was a test of a program whose entrypoint cannot be walked
TestCannotStart ==
  /\ Ran({"test"}) /\ RequireStack(hist.root, 2) /\ IsObj(Operand(2))
  /\ ~IsNone(ObjGet(Operand(2), "entrypoint"))
  /\ ~IsArr(ObjGet(Operand(2), "entrypoint")) \/ ~HasStack(Operand(2))

\* a step that aborts leaves every frame where it was and grows no stack
AbortsInPlace ==
  /\ status' = "fatal"
  /\ Len(cstack') >= Len(cstack)
  /\ \A d \in 1..Len(docs) :
       /\ d # hist'.d => docs'[d] = docs[d]
       /\ StackLen(docs'[d].root) <= StackLen(docs[d].root)

\* C31: a fatal error ends the execution, also inside a test, step or undo
\* sandbox: no step follows it, the activations of the parent are never
\* resumed and nothing is pushed on the stack of the parent
C31_FatalEndsRun ==
  [][/\ hist.res # "fatal" /\ status # "fatal"
     /\ hist'.res = "fatal" => AbortsInPlace
     /\ TestCannotStart' => hist'.res = "fatal"]_vars

\* a sandbox run was aborted while its parent still had an instruction to run
C31_Witness ==
  /\ status = "fatal" /\ hist.res = "fatal" /\ hist.d # 1 /\ Len(cstack) >= 3
  /\ cstack[1].kind = "walk" /\ cstack[1].idx < cstack[1].max
  /\ cstack[2].kind \in {"test", "step"}

\* the run is that of the manual's handle example
RunsPtrExample ==
  IsObj(docs[1].root) /\ ObjGet(docs[1].root, "entrypoint") = ObjGet(PtrExample, "entrypoint")

\* C32: the manual's handle example runs its six steps without a fatal error:
\* ptr_new pins stack[0], ptr_set writes 100 there, ptr_release leaves the
\* pointer stack empty
C32_PtrExampleRuns ==
  RunsPtrExample
    => /\ status # "fatal"
       /\ Ran({"ptr_new"}) => hist.res = "done" /\ Len(ptrs) = 1
       /\ Ran({"ptr_set"}) => hist.res = "done" /\ Stack(NowRoot) = JArr(<<JInt(100)>>)
       /\ Ran({"ptr_release"}) => hist.res = "done" /\ ptrs = <<>>

\* the last instruction was a ptr_new of one of the paths that select nothing
PtrNewUnresolved ==
  /\ Ran({"ptr_new"}) /\ RequireStack(hist.root, 1)
  /\ IsStr(Operand(1)) /\ Operand(1).v \in UnresolvedPaths

RefMoves(d, n) == RefCount(docs'[d].root) = RefCount(docs[d].root) + n

\* this step is a ptr_new that succeeds on a live document
TakesHandle(p) ==
  /\ KindOf(p) = "ptr_new" /\ ~docs[p.d].freed
  /\ status' = "running" /\ hist'.res = "done"

\* this step is a ptr_release of a handle on a live document
DropsHandle(p) ==
  /\ KindOf(p) = "ptr_release" /\ Len(ptrs) > 0 /\ ~docs[Last(ptrs).doc].freed
  /\ status' = "running"

\* this step is the first retain of an input document that carries no ref
FirstRetain == status = "loaded" /\ IsObj(docs[1].root) /\ IsNone(ObjGet(docs[1].root, "ref"))

PlaceOf(rec) ==
  IF rec.kind = "walk" THEN <<"walk", rec.doc, rec.path, rec.idx>>
  ELSE IF rec.kind = "map" THEN <<"map", rec.doc, rec.i>>
  ELSE IF rec.kind = "step" THEN <<"step", rec.doc, rec.pc>>
  ELSE <<rec.kind, rec.doc>>

\* the activations below the running one stay where they are
SuspendedKept ==
  \A k \in 1..(Len(cstack) - 1) : k <= Len(cstack') /\ PlaceOf(cstack'[k]) = PlaceOf(cstack[k])

\* the running frame executes the element after the ones it has consumed and
\* moves past it; the frames started by it begin at their first element
RunsNext(f) ==
  /\ hist'.elem = FrameElems(Machine, f)[f.idx + 1]
  /\ Len(cstack') >= Len(cstack)
  /\ PlaceOf(cstack'[Len(cstack)]) = <<"walk", f.doc, f.path, f.idx + 1>>
  /\ \A k \in (Len(cstack) + 1)..Len(cstack') : cstack'[k].kind = "walk" => cstack'[k].idx = 0

\* a frame whose elements are consumed, or that finds the exit flag, returns
FrameStep(p, f) ==
  IF p.ready THEN RunsNext(f)
  ELSE Len(cstack') = Len(cstack) - 1 /\ hist'.op \in {"return", "break", "enter"}

AddsIntegers ==
  /\ Ran({"add_two_top"}) /\ PlainStack /\ RequireStack(hist.root, 2)
  /\ IsInt(Operand(1)) /\ IsInt(Operand(2))

\* the value of the last patch of the group the last instruction committed
LastPatchValue == ObjGet(Last(Last(NewEntries).v), "value")

\* C36: add_two_top on integers A and B replaces them by the integer A + B,
\* and on a reversible document the value of its add patch is structurally
\* equal to the value pushed
C36_AddExact ==
  AddsIntegers
    => /\ hist.res = "done"
       /\ Stack(NowRoot).v
            = Append(SubSeq(Stack(hist.root).v, 1, StackLen(hist.root) - 2),
                     JInt(Operand(1).v + Operand(2).v))
       /\ GetBool(ObjGet(hist.root, "is_reversible"))
            => DeepEqual(LastPatchValue, StackTop(NowRoot))

\* the stack and heap of a root: its members other than the program, the
\* frame names and the log
StackAndHeap(root) ==
  {root.v[i] : i \in {j \in 1..Len(root.v) :
                        root.v[j].k \notin {"entrypoint", "call_stack", "residual"}}}

\* the five runs of WaysOf have ended; documents 2..6 are their sandboxes,
\* document 2 that of the inline run
WaysDone ==
  /\ status = "done" /\ Len(docs) = 6 /\ IsObj(docs[1].root)
  /\ ObjGet(docs[1].root, "entrypoint") = JArr([i \in 1..5 |-> Dir("test")])
WayBody == ObjGet(docs[1].root, "a").v

HasExit(A) == \E i \in 1..Len(A) : A[i] = Dir("exit")
\* A reads the frame names or the log
ReadsBookkeeping(A) ==
  \E i \in 1..Len(A) : A[i] \in {JStr("/call_stack"), JStr("/residual"), JStr("/")}

\* the four framed runs agree, and agree with the inline run when A has no exit
WaysAgree ==
  /\ \A i \in 3..6 : \A j \in 3..6 : StackAndHeap(docs[i].root) = StackAndHeap(docs[j].root)
  /\ ~HasExit(WayBody) => StackAndHeap(docs[2].root) = StackAndHeap(docs[3].root)

RECURSIVE UndoTimes(_, _)
\* perform_undo applied n times: [st, root]
UndoTimes(root, n) ==
  IF n = 0 THEN [st |-> "ok", root |-> root]
  ELSE LET u == PerformUndo(root)
       IN IF u.st = "fatal" THEN u ELSE UndoTimes(u.root, n - 1)

\* the path a get reads lies outside the stack
OutsideStack(path) == ~(Len(path) >= 6 /\ SubSeq(path, 1, 6) = "/stack")

\* the last instruction was a push, duplicate_top, add_two_top or get on a
\* reversible document, and its patches were appended to the log
UndoableStep ==
  /\ Ran({"literal", "duplicate_top", "add_two_top", "get"}) /\ hist.res = "done"
  /\ PlainStack /\ GetBool(ObjGet(hist.root, "is_reversible")) /\ LogExtended
  /\ hist.op = "get" => OutsideStack(Operand(1).v)

\* n undos of the present root give the stack and the log of the invocation
UndoGives(n, stack) ==
  \E u \in {UndoTimes(NowRoot, n)} :
    u.st = "ok" /\ HasStack(u.root) /\ DeepEqual(Stack(u.root), stack)

\* undoing every entry of the finished UndoRun, last first, gives its first stack
UndoRunRestored ==
  status = "done" /\ ObjGet(docs[1].root, "entrypoint") = ObjGet(UndoRun, "entrypoint")
    => \E u \in {UndoTimes(docs[1].root, Len(ResidualEntries(docs[1].root)))} :
         u.st = "ok" /\ Stack(u.root) = Stack(UndoRun) /\ ResidualEntries(u.root) = <<>>

\* C38: undoing the entries of a push, duplicate_top, add_two_top or get, last
\* first, gives back the stack the instruction found; after each single undo
\* the stack is the one that preceded the edit the entry records; undoing
\* every entry of a finished program of such instructions gives its first stack
C38_UndoRestores ==
  /\ UndoableStep
       => /\ Len(NewEntries) = (IF hist.op = "duplicate_top" THEN 3 ELSE 1)
          /\ UndoGives(Len(NewEntries), Stack(hist.root))
          /\ UndoGives(1, Stack(hist.root))
          /\ hist.op = "duplicate_top" => UndoGives(2, ArrRemoveLast(Stack(hist.root)))
  /\ UndoRunRestored

\* the UndoRun has ended with its eight entries logged
C38_Witness ==
  /\ status = "done" /\ ObjGet(docs[1].root, "entrypoint") = ObjGet(UndoRun, "entrypoint")
  /\ Len(ResidualEntries(docs[1].root)) = 8
  /\ Stack(docs[1].root) = JArr(<<JInt(1), JInt(2), JInt(10), JInt(0), JArr(<<JInt(4)>>)>>)

\* C39: while the run goes on, no document with an active walker invocation
\* has been freed
C39_WalkedDocAlive ==
  status = "running" => \A d \in 1..Len(docs) : ActiveWalks(d) # {} => ~docs[d].freed

====
